---- MODULE Spec2Model ----
(***************************************************************************)
(* Model of the data-capture service: the OPC UA connection lifecycle      *)
(* manager (src/opcua_connection_manager.py) as a set of asyncio tasks,    *)
(* and the collector with its break detector                               *)
(* (src/data_collector_oee_bk.py).                                         *)
(* Every action is one atomic stretch of code between two suspension       *)
(* points (await) of one task; the code between two awaits of an asyncio   *)
(* task runs without interleaving.                                         *)
(***************************************************************************)
EXTENDS Integers, Sequences, FiniteSets, TLC

(***************************************************************************)
(* Bounds of the model (not program constants).                            *)
(***************************************************************************)
\* connect/handshake failures are injected only while the attempt counter is below this
MaxAttempts == 7
\* number of injected probe failures, raising callbacks and failed event inserts
MaxFaults == 2
\* number of stop() calls the caller makes
MaxStops == 2
\* the wall clock runs from 0 to MaxTime
MaxTime == 1
\* identical readings are delivered only while frozen_count is below this
MaxFrozen == 4
\* a break is opened only while table actual_breaks has fewer rows than this
MaxBreaks == 2
\* number of check_frozen calls made when the function is taken alone
MaxReadings == 5
\* number of polling ticks made when collect_once is followed step by step
MaxTicks == 2

(***************************************************************************)
(* Program constants.                                                      *)
(***************************************************************************)
\* OPCUAConnectionManager.BACKOFF_INTERVALS
BACKOFF_INTERVALS == <<1, 2, 5, 10, 30, 60>>
\* Python's None, for a handle and for a timestamp
None == 0
NoTime == -1

\* the coroutines that run manager code: the caller of start(), the
\* health-check task (_monitor_connection), the caller of stop()
Tasks == {"start", "monitor", "stop"}
\* the two tasks that can run a reconnection routine
Reconnectors == {"start", "monitor"}

VARIABLES
    client,               \* self.client: a handle id, or None
    is_connected,         \* self.is_connected
    reconnect_attempts,   \* self.reconnect_attempts
    should_run,           \* self.should_run
    monitor_task,         \* self.monitor_task is not None
    last_disconnect_time, \* self.last_disconnect_time (NoTime: None)
    db_pool,              \* a db_pool was given to the constructor
    security,             \* security_policy and security_mode were given
    pc,                   \* per task: the await it is suspended at
    backoff_seconds,      \* per task: the local backoff_seconds of _attempt_reconnect
    href,                 \* per task: the client object its pending call was made on
    cancel_req,           \* monitor_task.cancel() was called and not yet delivered
    live,                 \* handles on which connect() completed and disconnect() was not called
    log,                  \* connection_events rows written and callbacks invoked, in order
    downtime_seconds,     \* per task: the local downtime_seconds of _attempt_reconnect,
                          \* kept while the 'reconnected' event that carries it is pending
    start_result,         \* what start() returned: "none" while it has not returned
    stops,                \* number of stop() calls that have returned
    faults,               \* number of faults injected so far
    now                   \* the wall clock read by datetime.now()

\* The collector (OEEDataCollector) and its break detector (BreakDetector)
VARIABLES
    clock,                   \* datetime.now() of the collector: seconds since midnight
    scheduled_breaks,        \* BreakDetector.scheduled_breaks, as loaded
    prev_ta,                 \* BreakDetector.prev_ta: per unit, the last key seen
    frozen_count,            \* BreakDetector.frozen_count
    in_break,                \* BreakDetector.in_break
    current_scheduled_break, \* BreakDetector.current_scheduled_break (NoBreak: None)
    current_break_id,        \* BreakDetector.current_break_id (None: None)
    actual_breaks,           \* the rows of table actual_breaks; the id of a row is its index
    running,                 \* OEEDataCollector.running
    cpc,                     \* the await the collector's coroutine is suspended at
    proc_now,                \* the local `now` of process, while its insert or update is pending
    shutdowns,               \* number of shutdown() calls begun
    pool_closed              \* db_pool.close() was done

\* Calls of BreakDetector.check_frozen taken alone
VARIABLES
    batches,                 \* the arguments of the calls made so far, in order
    is_frozen                \* what the last call returned

fvars == <<batches, is_frozen>>

\* collect_once followed from await to await
VARIABLES
    tick,                    \* the locals of the collect_once call under way, or of the last one
    ticks                    \* number of collect_once calls begun

tvars == <<tick, ticks>>

\* The day the collector runs on and the telemetry it has stored
VARIABLES
    weekday,                 \* datetime.now().isoweekday(): 1 is Monday, 5 is Friday
    quality_counters         \* the rows of table quality_counters

dvars == <<weekday, quality_counters>>

bvars == <<clock, scheduled_breaks, prev_ta, frozen_count, in_break,
           current_scheduled_break, current_break_id, actual_breaks, running,
           cpc, proc_now, shutdowns, pool_closed>>

cvars == <<bvars, fvars, tvars, dvars>>

mvars == <<client, is_connected, reconnect_attempts, should_run, monitor_task,
           last_disconnect_time, db_pool, security, pc,
           backoff_seconds, href, cancel_req, live, log, downtime_seconds,
           start_result, stops, faults, now>>

vars == <<mvars, cvars>>

Min(a, b) == IF a <= b THEN a ELSE b
Max(a, b) == IF a >= b THEN a ELSE b

----------------------------------------------------------------------------
(* Pure helpers *)

\* the wait as it would be with the index taken after the counter is incremented
BackoffSecondsAfterIncrement(n) ==
    BACKOFF_INTERVALS[Min(n + 1, Len(BACKOFF_INTERVALS) - 1) + 1]

\* _attempt_reconnect, lines 137-138: the wait for the attempt made when the
\* counter is n (Python index min(n, len-1), sequences here start at 1)
BackoffSeconds(n) ==
    BACKOFF_INTERVALS[Min(n, Len(BACKOFF_INTERVALS) - 1) + 1]

\* get_client() as it would be without the is_connected test
get_client_unchecked == client

\* get_client(): synchronous, no await
get_client ==
    IF is_connected /\ client # None THEN client ELSE None

\* Client(url=...): a new client object; the id of an object that is
\* neither referenced nor connected is free to name the new one
UsedHandles == (live \cup {client} \cup {href[t] : t \in Tasks}) \ {None}
NewHandle ==
    CHOOSE h \in 1..(Cardinality(UsedHandles) + 1) :
        /\ h \notin UsedHandles
        /\ \A g \in 1..(h - 1) : g \in UsedHandles

\* a call of _log_connection_event with a db_pool: a row of connection_events
\* (ok), or a failed insert
Event(kind, stored) == [type |-> "event", kind |-> kind, ok |-> stored]
\* a call of on_connected / on_disconnected, which returned (ok) or raised
Callback(kind, returned) == [type |-> "callback", kind |-> kind, ok |-> returned]

\* `while self.should_run:` of _monitor_connection: the next sleep, or the end
MonitorLoop == IF should_run THEN "m_sleep" ELSE "m_done"

\* where the reconnection loop of task t goes when its condition is false:
\* start() returns False (line 308), _handle_disconnect returns to the monitor loop
LoopExit(t) == IF t = "start" THEN "ret_false" ELSE MonitorLoop

----------------------------------------------------------------------------
(* The collector: constants, times, readings *)

\* BreakDetector.FREEZE_THRESHOLD, BreakDetector.EARLY_LATE_TOLERANCE_MIN
FREEZE_THRESHOLD == 3
EARLY_LATE_TOLERANCE_MIN == 2

\* a time of day, dt_time(h, m, s), in seconds since midnight
HMS(h, m, s) == h * 3600 + m * 60 + s
DaySeconds == HMS(24, 0, 0)

\* the instants at which the collector's clock is read, all on one day
Instants ==
    {HMS(9, 54, 0), HMS(9, 56, 0), HMS(9, 58, 0), HMS(9, 59, 0),
     HMS(10, 11, 0), HMS(10, 12, 0)}
FirstInstant == HMS(9, 54, 0)

\* the weekday (isoweekday) of the day the collector runs on, unless a
\* specification chooses the day: a Wednesday
Today == 3

\* config['machine']['active_sequences'], in the order of the configuration
active_sequences == <<47, 12>>
Units == {active_sequences[i] : i \in 1..Len(active_sequences)}

\* rows of break_definitions (load_scheduled_breaks lines 75-80), for
\* Wednesdays: a Shift-1 break 10:00-10:10, and an entry of Shift 2 whose
\* times cover the same morning
MorningBreak ==
    [id |-> 1, day_of_week |-> Today, shift_number |-> 1,
     start_time |-> HMS(10, 0, 0), end_time |-> HMS(10, 10, 0)]
OtherShiftEntry ==
    [id |-> 2, day_of_week |-> Today, shift_number |-> 2,
     start_time |-> HMS(9, 50, 0), end_time |-> HMS(10, 20, 0)]
\* None, for a schedule entry
NoBreak ==
    [id |-> 0, day_of_week |-> 0, shift_number |-> 0, start_time |-> 0, end_time |-> 0]
\* what load_scheduled_breaks may have loaded (ORDER BY start_time)
Schedules == {<<OtherShiftEntry>>, <<OtherShiftEntry, MorningBreak>>}

\* a row of break_definitions for Friday: a break of Shift 2, which begins at
\* 13:30 on Fridays (_get_current_shift_and_hour lines 357-360)
FridayBreak ==
    [id |-> 3, day_of_week |-> 5, shift_number |-> 2,
     start_time |-> HMS(13, 40, 0), end_time |-> HMS(13, 50, 0)]

\* what load_scheduled_breaks has loaded on weekday wd when the table holds
\* the morning break on Wednesdays and the early Shift-2 break on Fridays
DaySchedule(wd) == IF wd = 5 THEN <<FridayBreak>> ELSE <<MorningBreak>>

\* a row of break_definitions for Thursday: a Shift-1 break 09:50-10:05
ThursdayBreak ==
    [id |-> 4, day_of_week |-> 4, shift_number |-> 1,
     start_time |-> HMS(9, 50, 0), end_time |-> HMS(10, 5, 0)]

\* the table break_definitions of a plant whose morning break is earlier on
\* Thursdays than on Wednesdays
break_definitions == {MorningBreak, ThursdayBreak, FridayBreak}

\* load_scheduled_breaks line 84: ORDER BY start_time
OrderByStartTime(rows) ==
    CHOOSE s \in [1..Cardinality(rows) -> rows] :
        \A i, j \in 1..Cardinality(rows) : i < j => s[i].start_time < s[j].start_time

\* load_scheduled_breaks lines 64-87 run on weekday wd (day_of_week is
\* weekday() + 1, the isoweekday; tomorrow_dow is the day after it): what
\* self.scheduled_breaks is set to
load_scheduled_breaks(wd) ==
    OrderByStartTime({r \in break_definitions :
                         r.day_of_week \in {wd, (wd % 7) + 1}})

\* the instants at which the polling loop wakes on weekday wd: before, at the
\* start of, at the end of and after the break of the day
DayInstants(wd) ==
    IF wd = 5
    THEN {HMS(13, 45, 0), HMS(13, 55, 0)}
    ELSE {HMS(9, 58, 0), HMS(10, 0, 0), HMS(10, 10, 0), HMS(10, 11, 0)}

\* what read_ta_data appends for a unit: ta_percent in units of 0.00001 and
\* fault_time_sec in milliseconds
TaReading(seq, ta, fault) ==
    [sequence_id |-> seq, ta_percent |-> ta, fault_time_sec |-> fault]
TaReadings(seq) ==
    IF seq = 47
    THEN {TaReading(47, 9500000, 0), TaReading(47, 9500004, 0), TaReading(47, 9500000, 1000)}
    ELSE {TaReading(seq, 9000000, 0)}

\* the batches read_ta_data can return: the units whose reads succeeded, in
\* the order of active_sequences
TaBatches ==
    {<<>>}
    \cup {<<r>> : r \in TaReadings(47) \cup TaReadings(12)}
    \cup {<<r, q>> : r \in TaReadings(47), q \in TaReadings(12)}

\* None, for a key of prev_ta
NoKey == <<>>

\* a row of actual_breaks with end_time, duration_minutes, late_end_minutes NULL
OpenRow(start, brk, early) ==
    [start_time |-> start, end_time |-> NoTime, shift_number |-> brk.shift_number,
     scheduled_break_id |-> brk.id, early_start_minutes |-> early,
     duration_minutes |-> NoTime, late_end_minutes |-> NoTime]

\* read_quality_counters line 472/494: `return None`
NoCounters == [shift |-> 0, hour |-> 0, good |-> 0, reject |-> 0, rework |-> 0]

\* collect_once before its first statement: nothing read, nothing stored.
\* client and idx are the locals of the read function under way; attempted
\* and failed are the reads made and the reads that raised, as
\* <<field group, unit>>; stored is what the three store functions wrote and
\* store_failed names those whose INSERT raised.
NoTick ==
    [in_scheduled_break |-> FALSE, client |-> None, idx |-> 0,
     cycles |-> <<>>, ta_data |-> <<>>, counters |-> NoCounters,
     attempted |-> {}, failed |-> {},
     stored |-> [cycles |-> <<>>, ta |-> <<>>, quality |-> NoCounters],
     store_failed |-> {}]

\* BreakDetector.__init__ (lines 45-60) and OEEDataCollector.__init__ (lines 288-291)
CollectorConstructed ==
    /\ clock = FirstInstant
    /\ scheduled_breaks = <<>>
    /\ prev_ta = [u \in Units |-> NoKey]
    /\ frozen_count = 0
    /\ in_break = FALSE
    /\ current_scheduled_break = NoBreak
    /\ current_break_id = None
    /\ actual_breaks = <<>>
    /\ running = FALSE
    /\ cpc = "none"
    /\ proc_now = NoTime
    /\ shutdowns = 0
    /\ pool_closed = FALSE
    /\ batches = <<>>
    /\ is_frozen = FALSE
    /\ tick = NoTick
    /\ ticks = 0
    /\ weekday = Today
    /\ quality_counters = {}

CollectorTypeOK ==
    /\ clock \in Instants \cup DayInstants(weekday)
    /\ scheduled_breaks \in Schedules \cup {<<>>, DaySchedule(weekday)}
                              \cup {load_scheduled_breaks(wd) : wd \in 1..7}
    /\ \A u \in Units : prev_ta[u] = NoKey \/ Len(prev_ta[u]) = 2
    /\ frozen_count \in 0..Max(MaxFrozen, MaxReadings)
    /\ in_break \in BOOLEAN
    /\ current_scheduled_break \in {NoBreak, MorningBreak, OtherShiftEntry, FridayBreak,
                                    ThursdayBreak}
    /\ current_break_id \in 0..MaxBreaks
    /\ Len(actual_breaks) <= MaxBreaks
    /\ running \in BOOLEAN
    /\ cpc \in STRING
    /\ proc_now \in {NoTime} \cup Instants \cup DayInstants(weekday)
    /\ shutdowns \in 0..MaxStops
    /\ pool_closed \in BOOLEAN
    /\ Len(batches) <= MaxReadings
    /\ is_frozen \in BOOLEAN
    /\ tick.idx \in 0..Len(active_sequences)
    /\ tick.failed \subseteq tick.attempted
    /\ ticks \in 0..MaxTicks
    /\ weekday \in 1..7
    /\ \A r \in quality_counters : r.shift_number \in 1..3

TypeOK ==
    /\ CollectorTypeOK
    /\ client \in Nat
    /\ is_connected \in BOOLEAN
    /\ reconnect_attempts \in Nat
    /\ should_run \in BOOLEAN
    /\ monitor_task \in BOOLEAN
    /\ last_disconnect_time \in {NoTime} \cup 0..MaxTime
    /\ db_pool \in BOOLEAN
    /\ security \in BOOLEAN
    /\ pc \in [Tasks -> STRING]
    /\ backoff_seconds \in [Reconnectors -> Nat]
    /\ downtime_seconds \in [Reconnectors -> {NoTime} \cup 0..MaxTime]
    /\ href \in [Tasks -> Nat]
    /\ cancel_req \in BOOLEAN
    /\ live \subseteq Nat
    /\ start_result \in {"none", "true", "false"}
    /\ stops \in 0..MaxStops
    /\ faults \in 0..MaxFaults
    /\ now \in 0..MaxTime

----------------------------------------------------------------------------
\* __init__, lines 57-76; the constructor arguments are the caller's choice
Init ==
    /\ client = None
    /\ is_connected = FALSE
    /\ reconnect_attempts = 0
    /\ should_run = FALSE
    /\ monitor_task = FALSE
    /\ last_disconnect_time = NoTime
    /\ db_pool \in BOOLEAN
    /\ security \in BOOLEAN
    /\ pc = [t \in Tasks |-> IF t = "monitor" THEN "none" ELSE "idle"]
    /\ backoff_seconds = [t \in Reconnectors |-> 0]
    /\ downtime_seconds = [t \in Reconnectors |-> NoTime]
    /\ href = [t \in Tasks |-> None]
    /\ cancel_req = FALSE
    /\ live = {}
    /\ log = <<>>
    /\ start_result = "none"
    /\ stops = 0
    /\ faults = 0
    /\ now = 0
    /\ CollectorConstructed

----------------------------------------------------------------------------
(* Fault injection: the outcomes of the transport, the store and the callbacks *)

\* a probe may fail, a callback may raise, an event insert may fail
FaultAllowed == faults < MaxFaults
\* client.connect() and set_security_string() may fail
ConnectFaultAllowed == reconnect_attempts < MaxAttempts

----------------------------------------------------------------------------
(* The reconnection loop and its two callers *)

\* _attempt_reconnect, lines 136-148: from its first line to the backoff sleep
AttemptBegin(t, attempts) ==
    /\ reconnect_attempts' = attempts + 1
    /\ backoff_seconds' = [backoff_seconds EXCEPT ![t] = BackoffSeconds(attempts)]
    /\ pc' = [pc EXCEPT ![t] = "ar_sleep"]

\* start() lines 293-296 and 303-306: the monitor task is created and start() returns True
StartSucceeded ==
    /\ monitor_task' = TRUE
    /\ start_result' = "true"
    /\ pc' = [pc EXCEPT !["start"] = "ret_true", !["monitor"] = "m_pending"]

\* the reconnection loop as it would be with a retry limit of 3 attempts
ReconnectLoopLimited(t, success, attempts, connected) ==
    IF success
    THEN /\ reconnect_attempts' = attempts
         /\ backoff_seconds' = [backoff_seconds EXCEPT ![t] = 0]
         /\ IF t = "start"
            THEN StartSucceeded
            ELSE /\ pc' = [pc EXCEPT ![t] = MonitorLoop]
                 /\ UNCHANGED <<monitor_task, start_result>>
    ELSE IF should_run /\ ~connected /\ attempts < 3
    THEN /\ AttemptBegin(t, attempts)
         /\ UNCHANGED <<monitor_task, start_result>>
    ELSE /\ reconnect_attempts' = attempts
         /\ backoff_seconds' = [backoff_seconds EXCEPT ![t] = 0]
         /\ UNCHANGED monitor_task
         /\ pc' = [pc EXCEPT ![t] = LoopExit(t)]
         /\ start_result' = IF t = "start" THEN "false" ELSE start_result

\* the reconnection loop as it would be if start() created the health-check
\* task before it entered the loop
ReconnectLoopWithMonitor(t, success, attempts, connected) ==
    IF success
    THEN /\ reconnect_attempts' = attempts
         /\ backoff_seconds' = [backoff_seconds EXCEPT ![t] = 0]
         /\ IF t = "start"
            THEN /\ monitor_task' = TRUE
                 /\ start_result' = "true"
                 /\ pc' = [pc EXCEPT !["start"] = "ret_true",
                                     !["monitor"] = IF @ = "none" THEN "m_pending" ELSE @]
            ELSE /\ pc' = [pc EXCEPT ![t] = MonitorLoop]
                 /\ UNCHANGED <<monitor_task, start_result>>
    ELSE IF should_run /\ ~connected
    THEN /\ reconnect_attempts' = attempts + 1
         /\ backoff_seconds' = [backoff_seconds EXCEPT ![t] = BackoffSeconds(attempts)]
         /\ pc' = [pc EXCEPT ![t] = "ar_sleep",
                             !["monitor"] = IF t = "start" /\ @ = "none"
                                            THEN "m_pending" ELSE @]
         /\ monitor_task' = (monitor_task \/ t = "start")
         /\ UNCHANGED start_result
    ELSE /\ reconnect_attempts' = attempts
         /\ backoff_seconds' = [backoff_seconds EXCEPT ![t] = 0]
         /\ UNCHANGED monitor_task
         /\ pc' = [pc EXCEPT ![t] = LoopExit(t)]
         /\ start_result' = IF t = "start" THEN "false" ELSE start_result

\* What follows connect() or _attempt_reconnect() returning `success` to task t,
\* the counter being `attempts` and self.is_connected being `connected`:
\* start() lines 293-308, _handle_disconnect lines 259-262. The local
\* backoff_seconds of the attempt that returned is kept until the next attempt
\* begins in the same step, and is gone (0) when the loop is left.
ReconnectLoop(t, success, attempts, connected) ==
    IF success
    THEN /\ reconnect_attempts' = attempts
         /\ backoff_seconds' = [backoff_seconds EXCEPT ![t] = 0]
         /\ IF t = "start"
            THEN StartSucceeded
            ELSE /\ pc' = [pc EXCEPT ![t] = MonitorLoop]
                 /\ UNCHANGED <<monitor_task, start_result>>
    ELSE IF should_run /\ ~connected
    THEN /\ AttemptBegin(t, attempts)
         /\ UNCHANGED <<monitor_task, start_result>>
    ELSE /\ reconnect_attempts' = attempts
         /\ backoff_seconds' = [backoff_seconds EXCEPT ![t] = 0]
         /\ UNCHANGED monitor_task
         /\ pc' = [pc EXCEPT ![t] = LoopExit(t)]
         /\ start_result' = IF t = "start" THEN "false" ELSE start_result

\* a failure as it would be if the monitor's loop ended at the first failed attempt
FailedOnce(t) ==
    /\ is_connected' = FALSE
    /\ IF t = "monitor" /\ pc[t] \in {"ar_security", "ar_connect"}
       THEN /\ pc' = [pc EXCEPT ![t] = MonitorLoop]
            /\ backoff_seconds' = [backoff_seconds EXCEPT ![t] = 0]
            /\ UNCHANGED <<reconnect_attempts, monitor_task, start_result>>
       ELSE ReconnectLoop(t, FALSE, reconnect_attempts, FALSE)

\* a failure as it would be if the monitor took a failed attempt for a new disconnect
FailedAsDisconnect(t) ==
    /\ is_connected' = FALSE
    /\ IF t = "monitor"
       THEN /\ pc' = [pc EXCEPT ![t] = "hd_cb"]
            /\ UNCHANGED <<reconnect_attempts, backoff_seconds, monitor_task,
                           start_result>>
       ELSE ReconnectLoop(t, FALSE, reconnect_attempts, FALSE)

\* the except clause of connect() (lines 114-117) and of _attempt_reconnect
\* (lines 203-206): is_connected = False, return False
Failed(t) ==
    /\ is_connected' = FALSE
    /\ ReconnectLoop(t, FALSE, reconnect_attempts, FALSE)

\* the first await after a client object was created: set_security_string
\* if security is configured, else connect
AfterNewClient(prefix) ==
    IF security THEN prefix \o "_security" ELSE prefix \o "_connect"

----------------------------------------------------------------------------
(* start() and connect() *)

\* start() line 288 and connect() lines 84-95, up to the first await. The
\* caller starts a manager once and does not restart one it has stopped
\* (OEEDataCollector.run and shutdown).
StartCall ==
    /\ pc["start"] = "idle"
    /\ pc["stop"] = "idle"
    /\ stops = 0
    /\ should_run' = TRUE
    /\ client' = NewHandle
    /\ href' = [href EXCEPT !["start"] = NewHandle]
    /\ pc' = [pc EXCEPT !["start"] = AfterNewClient("c")]
    /\ UNCHANGED <<is_connected, reconnect_attempts, monitor_task,
                   last_disconnect_time, db_pool, security,
                   backoff_seconds, cancel_req, live, log, downtime_seconds,
                   start_result, stops, faults, now>>
    /\ UNCHANGED cvars

\* the handshake of the initial connect as it would be if its failure ended start()
ConnectSecurityFatal ==
    /\ pc["start"] = "c_security"
    /\ \/ /\ client # None
          /\ href' = [href EXCEPT !["start"] = client]
          /\ pc' = [pc EXCEPT !["start"] = "c_connect"]
          /\ UNCHANGED <<is_connected, start_result>>
       \/ /\ client = None \/ ConnectFaultAllowed
          /\ href' = [href EXCEPT !["start"] = None]
          /\ is_connected' = FALSE
          /\ pc' = [pc EXCEPT !["start"] = "ret_false"]
          /\ start_result' = "false"
    /\ UNCHANGED <<client, should_run, last_disconnect_time, reconnect_attempts,
                   backoff_seconds, monitor_task,
                   db_pool, security, cancel_req, live, log, downtime_seconds,
                   stops, faults, now>>
    /\ UNCHANGED cvars

\* connect() line 95: set_security_string returns, or raises
ConnectSecurity ==
    /\ pc["start"] = "c_security"
    /\ \/ /\ client # None
          /\ href' = [href EXCEPT !["start"] = client]
          /\ pc' = [pc EXCEPT !["start"] = "c_connect"]
          /\ UNCHANGED <<is_connected, reconnect_attempts, backoff_seconds,
                         monitor_task, start_result>>
       \/ /\ client = None \/ ConnectFaultAllowed
          /\ href' = [href EXCEPT !["start"] = None]
          /\ Failed("start")
    /\ UNCHANGED <<client, should_run, last_disconnect_time,
                   db_pool, security, cancel_req, live, log, downtime_seconds,
                   stops, faults, now>>
    /\ UNCHANGED cvars

\* connect() lines 97-104: client.connect() returns (lines 99-101 follow), or raises
ConnectConnect ==
    /\ pc["start"] = "c_connect"
    /\ href' = [href EXCEPT !["start"] = None]
    /\ \/ /\ live' = live \cup {href["start"]}
          /\ is_connected' = TRUE
          /\ reconnect_attempts' = 0
          /\ pc' = [pc EXCEPT !["start"] = IF db_pool THEN "c_log" ELSE "c_cb"]
          /\ UNCHANGED <<backoff_seconds, monitor_task, start_result>>
       \/ /\ ConnectFaultAllowed
          /\ Failed("start")
          /\ UNCHANGED live
    /\ UNCHANGED <<client, should_run, last_disconnect_time, db_pool, security,
                   cancel_req, log, downtime_seconds, stops, faults, now>>
    /\ UNCHANGED cvars

\* the event insert as it would be if its failure were raised to the caller
\* and ended the routine
LogConnectionEventRaises(t, kind, stored, next) ==
    /\ log' = Append(log, Event(kind, stored))
    /\ pc' = [pc EXCEPT ![t] = IF stored THEN next ELSE LoopExit(t)]
    /\ faults' = IF stored THEN faults ELSE faults + 1

\* _log_connection_event, lines 269-280: the insert is done, or it raises and
\* the exception is logged and dropped; the caller goes on to `next` either way
LogConnectionEvent(t, kind, stored, next) ==
    /\ log' = Append(log, Event(kind, stored))
    /\ pc' = [pc EXCEPT ![t] = next]
    /\ faults' = IF stored THEN faults ELSE faults + 1

\* connect() line 104: the 'connected' event
ConnectLog ==
    /\ pc["start"] = "c_log"
    /\ \E stored \in BOOLEAN :
          /\ stored \/ FaultAllowed
          /\ LogConnectionEvent("start", "connected", stored, "c_cb")
    /\ UNCHANGED <<client, is_connected, reconnect_attempts, should_run,
                   monitor_task, last_disconnect_time,
                   db_pool, security, backoff_seconds, href, cancel_req, live,
                   downtime_seconds, start_result, stops, now>>
    /\ UNCHANGED cvars

\* connect() lines 109-112: on_connected returns and connect() returns True, or
\* it raises into the except clause of connect()
ConnectCallback ==
    /\ pc["start"] = "c_cb"
    /\ \/ /\ log' = Append(log, Callback("on_connected", TRUE))
          /\ ReconnectLoop("start", TRUE, reconnect_attempts, is_connected)
          /\ UNCHANGED <<is_connected, faults>>
       \/ /\ FaultAllowed
          /\ faults' = faults + 1
          /\ log' = Append(log, Callback("on_connected", FALSE))
          /\ Failed("start")
    /\ UNCHANGED <<client, should_run, last_disconnect_time,
                   db_pool, security, href, cancel_req, live, downtime_seconds,
                   stops, now>>
    /\ UNCHANGED cvars

----------------------------------------------------------------------------
(* _attempt_reconnect(), run by start() or by the monitor task *)

\* the monitor task runs only while no cancellation is waiting to be delivered to it
Runs(t) == t = "start" \/ ~cancel_req

\* lines 160-162: the new client object, and the first await made on it
NewClient(t) ==
    /\ client' = NewHandle
    /\ href' = [href EXCEPT ![t] = NewHandle]
    /\ pc' = [pc EXCEPT ![t] = AfterNewClient("ar")]

\* AttemptSleep, but the client left from before is not disconnected
AttemptSleepNoCleanup(t) ==
    /\ pc[t] = "ar_sleep"
    /\ Runs(t)
    /\ NewClient(t)
    /\ UNCHANGED <<is_connected, reconnect_attempts, should_run, monitor_task,
                   last_disconnect_time, db_pool, security,
                   backoff_seconds, cancel_req, live, log, downtime_seconds,
                   start_result, stops, faults, now>>
    /\ UNCHANGED cvars

\* lines 148-162: the backoff sleep is over; a client left from before is
\* disconnected first (line 155), else the new client is created
AttemptSleep(t) ==
    /\ pc[t] = "ar_sleep"
    /\ Runs(t)
    /\ IF client # None
       THEN /\ href' = [href EXCEPT ![t] = client]
            /\ pc' = [pc EXCEPT ![t] = "ar_olddisc"]
            /\ UNCHANGED client
       ELSE NewClient(t)
    /\ UNCHANGED <<is_connected, reconnect_attempts, should_run, monitor_task,
                   last_disconnect_time, db_pool, security,
                   backoff_seconds, cancel_req, live, log, downtime_seconds,
                   start_result, stops, faults, now>>
    /\ UNCHANGED cvars

\* lines 155-162: the old client's disconnect() returned or raised (the bare
\* except drops whatever it raised); its socket is closed either way
AttemptOldDisconnect(t) ==
    /\ pc[t] = "ar_olddisc"
    /\ Runs(t)
    /\ live' = live \ {href[t]}
    /\ NewClient(t)
    /\ UNCHANGED <<is_connected, reconnect_attempts, should_run, monitor_task,
                   last_disconnect_time, db_pool, security,
                   backoff_seconds, cancel_req, log, downtime_seconds,
                   start_result, stops, faults, now>>
    /\ UNCHANGED cvars

\* line 170: set_security_string returns, or raises (line 172 raises too when
\* self.client has been set to None meanwhile)
AttemptSecurity(t) ==
    /\ pc[t] = "ar_security"
    /\ Runs(t)
    /\ \/ /\ client # None
          /\ href' = [href EXCEPT ![t] = client]
          /\ pc' = [pc EXCEPT ![t] = "ar_connect"]
          /\ UNCHANGED <<is_connected, reconnect_attempts, backoff_seconds,
                         monitor_task, start_result>>
       \/ /\ client = None \/ ConnectFaultAllowed
          /\ href' = [href EXCEPT ![t] = None]
          /\ Failed(t)
    /\ UNCHANGED <<client, should_run, last_disconnect_time,
                   db_pool, security, cancel_req, live, log, downtime_seconds,
                   stops, faults, now>>
    /\ UNCHANGED cvars

\* lines 179-181: downtime_seconds, None when there was no disconnect before
Downtime == IF last_disconnect_time = NoTime THEN NoTime ELSE now - last_disconnect_time

\* lines 172-195: client.connect() returns (lines 174-181 follow; without a
\* db_pool the event call returns at once and line 195 follows too), or raises
AttemptConnect(t) ==
    /\ pc[t] = "ar_connect"
    /\ Runs(t)
    /\ href' = [href EXCEPT ![t] = None]
    /\ \/ /\ live' = live \cup {href[t]}
          /\ is_connected' = TRUE
          /\ downtime_seconds' = [downtime_seconds EXCEPT ![t] =
                                       IF db_pool THEN Downtime ELSE NoTime]
          /\ reconnect_attempts' = IF db_pool THEN reconnect_attempts ELSE 0
          /\ pc' = [pc EXCEPT ![t] = IF db_pool THEN "ar_log" ELSE "ar_cb"]
          /\ UNCHANGED <<backoff_seconds, monitor_task, start_result>>
       \/ /\ ConnectFaultAllowed
          /\ Failed(t)
          /\ UNCHANGED <<live, downtime_seconds>>
    /\ UNCHANGED <<client, should_run, last_disconnect_time, db_pool, security,
                   cancel_req, log, stops, faults, now>>
    /\ UNCHANGED cvars

\* the 'reconnected' event as it would be without the reset of line 195
AttemptLogNoReset(t) ==
    /\ pc[t] = "ar_log"
    /\ Runs(t)
    /\ \E stored \in BOOLEAN :
          /\ stored \/ FaultAllowed
          /\ LogConnectionEvent(t, "reconnected", stored, "ar_cb")
    /\ downtime_seconds' = [downtime_seconds EXCEPT ![t] = NoTime]
    /\ UNCHANGED <<client, is_connected, reconnect_attempts, should_run,
                   monitor_task, last_disconnect_time, db_pool, security,
                   backoff_seconds, href, cancel_req, live, start_result,
                   stops, now>>
    /\ UNCHANGED cvars

\* lines 184-195: the 'reconnected' event, then the counter is reset
AttemptLog(t) ==
    /\ pc[t] = "ar_log"
    /\ Runs(t)
    /\ \E stored \in BOOLEAN :
          /\ stored \/ FaultAllowed
          /\ LogConnectionEvent(t, "reconnected", stored, "ar_cb")
    /\ reconnect_attempts' = 0
    /\ downtime_seconds' = [downtime_seconds EXCEPT ![t] = NoTime]
    /\ UNCHANGED <<client, is_connected, should_run, monitor_task,
                   last_disconnect_time, db_pool, security,
                   backoff_seconds, href, cancel_req, live, start_result,
                   stops, now>>
    /\ UNCHANGED cvars

\* lines 198-206: on_connected returns and the attempt returns True, or it
\* raises into the except clause of _attempt_reconnect
AttemptCallback(t) ==
    /\ pc[t] = "ar_cb"
    /\ Runs(t)
    /\ \/ /\ log' = Append(log, Callback("on_connected", TRUE))
          /\ ReconnectLoop(t, TRUE, reconnect_attempts, is_connected)
          /\ UNCHANGED <<is_connected, faults>>
       \/ /\ FaultAllowed
          /\ faults' = faults + 1
          /\ log' = Append(log, Callback("on_connected", FALSE))
          /\ Failed(t)
    /\ UNCHANGED <<client, should_run, last_disconnect_time,
                   db_pool, security, href, cancel_req, live, downtime_seconds,
                   stops, now>>
    /\ UNCHANGED cvars

----------------------------------------------------------------------------
(* _monitor_connection() and _handle_disconnect(), the monitor task *)

\* the task's first step, lines 213-218
MonitorRun ==
    /\ pc["monitor"] = "m_pending"
    /\ ~cancel_req
    /\ pc' = [pc EXCEPT !["monitor"] = MonitorLoop]
    /\ UNCHANGED <<client, is_connected, reconnect_attempts, should_run,
                   monitor_task, last_disconnect_time,
                   db_pool, security, backoff_seconds, href, cancel_req, live,
                   log, downtime_seconds, start_result, stops, faults, now>>
    /\ UNCHANGED cvars

\* lines 218-226: the health-check sleep is over; the probe is skipped when
\* not connected, else get_namespace_array() is called on self.client
MonitorWake ==
    /\ pc["monitor"] = "m_sleep"
    /\ ~cancel_req
    /\ IF ~is_connected
       THEN /\ pc' = [pc EXCEPT !["monitor"] = MonitorLoop]
            /\ UNCHANGED href
       ELSE /\ pc' = [pc EXCEPT !["monitor"] = "m_probe"]
            /\ href' = [href EXCEPT !["monitor"] = client]
    /\ UNCHANGED <<client, is_connected, reconnect_attempts, should_run,
                   monitor_task, last_disconnect_time,
                   db_pool, security, backoff_seconds, cancel_req, live, log,
                   downtime_seconds, start_result, stops, faults, now>>
    /\ UNCHANGED cvars

\* HandleDisconnect, but the time of the disconnect is not recorded
HandleDisconnectUntimed ==
    IF ~is_connected
    THEN /\ pc' = [pc EXCEPT !["monitor"] = MonitorLoop]
         /\ UNCHANGED <<is_connected, last_disconnect_time>>
    ELSE /\ is_connected' = FALSE
         /\ UNCHANGED last_disconnect_time
         /\ pc' = [pc EXCEPT !["monitor"] = IF db_pool THEN "hd_log" ELSE "hd_cb"]

\* _handle_disconnect, lines 240-247: nothing when already disconnected; else
\* the state and the time are set and the 'disconnected' event is made
\* (without a db_pool the event call returns at once and the callback follows)
HandleDisconnect ==
    IF ~is_connected
    THEN /\ pc' = [pc EXCEPT !["monitor"] = MonitorLoop]
         /\ UNCHANGED <<is_connected, last_disconnect_time>>
    ELSE /\ is_connected' = FALSE
         /\ last_disconnect_time' = now
         /\ pc' = [pc EXCEPT !["monitor"] = IF db_pool THEN "hd_log" ELSE "hd_cb"]

\* lines 226-230: the probe returns, or raises (a probe on self.client = None
\* raises) and _handle_disconnect is entered
MonitorProbe ==
    /\ pc["monitor"] = "m_probe"
    /\ ~cancel_req
    /\ href' = [href EXCEPT !["monitor"] = None]
    /\ \/ /\ href["monitor"] # None
          /\ pc' = [pc EXCEPT !["monitor"] = MonitorLoop]
          /\ UNCHANGED <<is_connected, last_disconnect_time, faults>>
       \/ /\ href["monitor"] = None \/ FaultAllowed
          /\ faults' = IF href["monitor"] = None THEN faults ELSE faults + 1
          /\ HandleDisconnect
    /\ UNCHANGED <<client, reconnect_attempts, should_run, monitor_task, db_pool, security, backoff_seconds,
                   cancel_req, live, log, downtime_seconds, start_result,
                   stops, now>>
    /\ UNCHANGED cvars

\* _handle_disconnect line 247: the 'disconnected' event
DisconnectLog ==
    /\ pc["monitor"] = "hd_log"
    /\ ~cancel_req
    /\ \E stored \in BOOLEAN :
          /\ stored \/ FaultAllowed
          /\ LogConnectionEvent("monitor", "disconnected", stored, "hd_cb")
    /\ UNCHANGED <<client, is_connected, reconnect_attempts, should_run,
                   monitor_task, last_disconnect_time,
                   db_pool, security, backoff_seconds, href, cancel_req, live,
                   downtime_seconds, start_result, stops, now>>
    /\ UNCHANGED cvars

\* _handle_disconnect lines 252-262: on_disconnected returns or raises (the
\* exception is logged and dropped), then the reconnection loop is entered
DisconnectCallback ==
    /\ pc["monitor"] = "hd_cb"
    /\ ~cancel_req
    /\ \E returned \in BOOLEAN :
          /\ returned \/ FaultAllowed
          /\ faults' = IF returned THEN faults ELSE faults + 1
          /\ log' = Append(log, Callback("on_disconnected", returned))
    /\ ReconnectLoop("monitor", FALSE, reconnect_attempts, is_connected)
    /\ UNCHANGED <<client, is_connected, should_run, last_disconnect_time, db_pool, security, href, cancel_req, live,
                   downtime_seconds, stops, now>>
    /\ UNCHANGED cvars

\* monitor_task.cancel() (stop(), line 316) is delivered: CancelledError is
\* raised at the await the task is suspended at. It is no Exception, so only
\* the bare except around the old client's disconnect (lines 154-157) catches
\* it, and the attempt then goes on with a new client; anywhere else it
\* reaches line 232 and the task ends. The interrupted disconnect is an error
\* of that disconnect like any other: disconnect() was called on the old
\* client, which is no longer live.
MonitorCancelled ==
    /\ cancel_req
    /\ pc["monitor"] \notin {"none", "m_done"}
    /\ cancel_req' = FALSE
    /\ IF pc["monitor"] = "ar_olddisc"
       THEN /\ live' = live \ {href["monitor"]}
            /\ NewClient("monitor")
            /\ UNCHANGED <<backoff_seconds, downtime_seconds>>
       ELSE /\ pc' = [pc EXCEPT !["monitor"] = "m_done"]
            /\ href' = [href EXCEPT !["monitor"] = None]
            /\ backoff_seconds' = [backoff_seconds EXCEPT !["monitor"] = 0]
            /\ downtime_seconds' = [downtime_seconds EXCEPT !["monitor"] = NoTime]
            /\ UNCHANGED <<client, live>>
    /\ UNCHANGED <<is_connected, reconnect_attempts, should_run, monitor_task,
                   last_disconnect_time, db_pool, security, log, start_result,
                   stops, faults, now>>
    /\ UNCHANGED cvars

----------------------------------------------------------------------------
(* stop() and disconnect() *)

\* disconnect(), lines 121-129, up to its await: with a client object its
\* disconnect() is awaited, without one the fields are set and stop() returns
DisconnectBegin ==
    IF client # None
    THEN /\ href' = [href EXCEPT !["stop"] = client]
         /\ pc' = [pc EXCEPT !["stop"] = "s_disc"]
         /\ UNCHANGED <<client, is_connected, stops>>
    ELSE /\ is_connected' = FALSE
         /\ client' = None
         /\ pc' = [pc EXCEPT !["stop"] = "idle"]
         /\ stops' = stops + 1
         /\ UNCHANGED href

\* stop() lines 312-323: should_run is cleared and the monitor task, if there
\* is one, is cancelled and awaited; awaiting a finished task does not suspend
StopCall ==
    /\ pc["stop"] = "idle"
    /\ stops < MaxStops
    /\ should_run' = FALSE
    /\ IF monitor_task /\ pc["monitor"] # "m_done"
       THEN /\ cancel_req' = TRUE
            /\ pc' = [pc EXCEPT !["stop"] = "s_await"]
            /\ UNCHANGED <<client, is_connected, href, stops>>
       ELSE /\ DisconnectBegin
            /\ UNCHANGED cancel_req
    /\ UNCHANGED <<reconnect_attempts, monitor_task, last_disconnect_time, db_pool, security, backoff_seconds, live,
                   log, downtime_seconds, start_result, faults, now>>
    /\ UNCHANGED cvars

\* stop() lines 318-323: the monitor task has ended
StopAwait ==
    /\ pc["stop"] = "s_await"
    /\ pc["monitor"] = "m_done"
    /\ DisconnectBegin
    /\ UNCHANGED <<reconnect_attempts, should_run, monitor_task,
                   last_disconnect_time, db_pool, security,
                   backoff_seconds, cancel_req, live, log, downtime_seconds,
                   start_result, faults, now>>
    /\ UNCHANGED cvars

\* disconnect() as it would be without line 129
StopDisconnectKeepsClient ==
    /\ pc["stop"] = "s_disc"
    /\ live' = live \ {href["stop"]}
    /\ href' = [href EXCEPT !["stop"] = None]
    /\ is_connected' = FALSE
    /\ pc' = [pc EXCEPT !["stop"] = "idle"]
    /\ stops' = stops + 1
    /\ UNCHANGED <<client, reconnect_attempts, should_run, monitor_task,
                   last_disconnect_time, db_pool, security,
                   backoff_seconds, cancel_req, log, downtime_seconds,
                   start_result, faults, now>>
    /\ UNCHANGED cvars

\* disconnect() lines 123-129: client.disconnect() returned or raised (the
\* bare except drops it); stop() returns
StopDisconnect ==
    /\ pc["stop"] = "s_disc"
    /\ live' = live \ {href["stop"]}
    /\ href' = [href EXCEPT !["stop"] = None]
    /\ is_connected' = FALSE
    /\ client' = None
    /\ pc' = [pc EXCEPT !["stop"] = "idle"]
    /\ stops' = stops + 1
    /\ UNCHANGED <<reconnect_attempts, should_run, monitor_task,
                   last_disconnect_time, db_pool, security,
                   backoff_seconds, cancel_req, log, downtime_seconds,
                   start_result, faults, now>>
    /\ UNCHANGED cvars

----------------------------------------------------------------------------
\* the wall clock advances
Tick ==
    /\ now < MaxTime
    /\ now' = now + 1
    /\ UNCHANGED <<client, is_connected, reconnect_attempts, should_run,
                   monitor_task, last_disconnect_time,
                   db_pool, security, pc, backoff_seconds, href, cancel_req,
                   live, log, downtime_seconds, start_result, stops, faults>>
    /\ UNCHANGED cvars

\* the steps of each task: the call, which is the caller's choice, and the
\* steps of a call under way, which the event loop schedules
StartRun ==
    \/ ConnectSecurity
    \/ ConnectConnect
    \/ ConnectLog
    \/ ConnectCallback
    \/ AttemptSleep("start")
    \/ AttemptOldDisconnect("start")
    \/ AttemptSecurity("start")
    \/ AttemptConnect("start")
    \/ AttemptLog("start")
    \/ AttemptCallback("start")

StartTask ==
    \/ StartCall
    \/ StartRun

MonitorTask ==
    \/ MonitorRun
    \/ MonitorWake
    \/ MonitorProbe
    \/ DisconnectLog
    \/ DisconnectCallback
    \/ AttemptSleep("monitor")
    \/ AttemptOldDisconnect("monitor")
    \/ AttemptSecurity("monitor")
    \/ AttemptConnect("monitor")
    \/ AttemptLog("monitor")
    \/ AttemptCallback("monitor")
    \/ MonitorCancelled

StopRun ==
    \/ StopAwait
    \/ StopDisconnect

StopTask ==
    \/ StopCall
    \/ StopRun

Next ==
    \/ StartTask
    \/ MonitorTask
    \/ StopTask
    \/ Tick

Spec == Init /\ [][Next]_vars

\* the steps of the manager's code alone: no guard of the code reads the
\* clock, which only stamps last_disconnect_time and the downtime
NextTasks ==
    \/ StartTask
    \/ MonitorTask
    \/ StopTask

\* The asyncio event loop runs every task that is ready: an await on the
\* transport, the store, a callback or a sleep ends, and the task goes on.
\* Calling start() or stop() is up to the caller.
FairSpec ==
    /\ Init
    /\ [][NextTasks]_vars
    /\ WF_vars(StartRun)
    /\ WF_vars(MonitorTask)
    /\ WF_vars(StopRun)

----------------------------------------------------------------------------
(* Control locations *)

\* inside connect(), inside _attempt_reconnect(), inside _handle_disconnect()
\* before its loop
ConnectPcs == {"c_security", "c_connect", "c_log", "c_cb"}
AttemptPcs == {"ar_sleep", "ar_olddisc", "ar_security", "ar_connect", "ar_log", "ar_cb"}
DisconnectPcs == {"hd_log", "hd_cb"}

\* task t is in a reconnection routine: the loop of start() or of _handle_disconnect
Reconnecting(t) == pc[t] \in AttemptPcs

----------------------------------------------------------------------------
(* Claims *)

\* C1: get_client() returns a handle only when the state is Connected, and
\* the handle it returns is self.client with a session opened on it; in every
\* other state (before start, during connect, during a reconnection attempt
\* with a new client object not yet connected, after a probe failure, after
\* stop) it returns None. It is a state function: it has no await.
C1_GetClientOnlyWhenConnected ==
    /\ get_client # None => (is_connected /\ get_client = client /\ get_client \in live)
    /\ ~is_connected => get_client = None

\* C1 witness: a reconnection attempt holds a new client object whose
\* connect() has not completed, and get_client() returns None
C1_Witness ==
    \E t \in Reconnectors :
        /\ pc[t] = "ar_connect"
        /\ client # None
        /\ client \notin live
        /\ get_client = None

\* start() has returned True, the session is live and the monitor task exists
StartedLive == start_result = "true" /\ is_connected /\ monitor_task

\* C2: start() returns False only when stop() was requested (should_run is
\* False), and once start() is called it leads to start() having returned True
\* with the state Connected and the monitor task created, unless stop() is
\* requested.
C2_StartNeverGivesUp ==
    /\ [](start_result = "false" => ~should_run)
    /\ (pc["start"] # "idle") ~> (StartedLive \/ ~should_run)

\* C2 witness: start() returned True through the reconnection loop (a
\* 'reconnected' event with no disconnect ever recorded), after failed attempts
C2_Witness ==
    /\ StartedLive
    /\ should_run
    /\ last_disconnect_time = NoTime
    /\ \E i \in 1..Len(log) : log[i] = Event("reconnected", TRUE)

\* C3: while should_run holds and the state is not Connected, a connect or a
\* reconnection routine is under way (no failure leaves the manager idle), and
\* a probe failure leads to the state Connected again unless stop() is requested.
C3_AutomaticRecovery ==
    /\ []((should_run /\ ~is_connected) =>
            \/ pc["start"] \in ConnectPcs \cup AttemptPcs
            \/ pc["monitor"] \in DisconnectPcs \cup AttemptPcs)
    /\ (pc["monitor"] \in DisconnectPcs) ~> (is_connected \/ ~should_run)

\* C3 witness: the monitor reconnected after a probe failure and a failed attempt
C3_Witness ==
    /\ is_connected
    /\ should_run
    /\ pc["monitor"] = "ar_cb"
    /\ last_disconnect_time # NoTime
    /\ backoff_seconds["monitor"] > 1

C5_CounterResetOnSuccess ==
    /\ [](pc["monitor"] \in {"m_pending", "m_sleep", "m_probe"} \cup DisconnectPcs
            => reconnect_attempts = 0)
    /\ [][(start_result = "none" /\ start_result' = "true")
            => reconnect_attempts' = 0]_vars
    /\ [][(pc["monitor"] = "ar_cb" /\ ~cancel_req /\ pc'["monitor"] # "ar_cb"
           /\ is_connected')
            => reconnect_attempts' = 0]_vars
    /\ [][(pc["monitor"] \in DisconnectPcs /\ pc'["monitor"] = "ar_sleep")
            => (reconnect_attempts' = 1 /\ backoff_seconds'["monitor"] = 1)]_vars

\* C5 witness: after a reconnection that followed failed attempts, the first
\* attempt after the next disconnect waits 1 second
C5_Witness ==
    /\ pc["monitor"] = "ar_sleep"
    /\ reconnect_attempts = 1
    /\ backoff_seconds["monitor"] = 1
    /\ \E i, j \in 1..Len(log) :
          /\ i < j
          /\ log[i] = Event("reconnected", TRUE)
          /\ log[j] = Event("disconnected", TRUE)

\* C6: once a stop() call has returned, the state is and stays Disconnected,
\* get_client() returns None, and nothing more is written to the event log and
\* no callback is invoked.
C6_StopIsFinal ==
    /\ [](stops >= 1 => (~is_connected /\ get_client = None))
    /\ [][stops >= 1 => log' = log]_vars

\* the state stop() leaves: lines 312, 128, 129
PostStop == ~is_connected /\ client = None /\ ~should_run

\* a step of stop(): its call, the end of its wait for the monitor task, or
\* its return
StopStep == pc'["stop"] # pc["stop"] \/ stops' # stops

\* C7: every return of stop() leaves is_connected False, client None and
\* should_run False; no step of stop() writes an event or invokes a callback;
\* and every step of a stop() called in the state a stop() left (or before
\* start()) leaves the manager state, the sessions and the event log unchanged.
C7_StopIdempotent ==
    /\ [][stops' = stops + 1 => PostStop']_vars
    /\ [][StopStep => log' = log]_vars
    /\ [][(PostStop /\ StopStep)
            => UNCHANGED <<is_connected, client, should_run, log, live,
                           reconnect_attempts, last_disconnect_time>>]_vars

\* C7 witness: stop() was called a second time on a manager that had been
\* started, connected and stopped
C7_Witness ==
    /\ stops = 2
    /\ PostStop
    /\ start_result = "true"
    /\ pc["monitor"] = "m_done"
    /\ log # <<>>

\* a step in which the initial connect of start() fails at `at`
InitialConnectFails(at) ==
    /\ pc["start"] = at
    /\ pc'["start"] \notin ConnectPcs

Entries(type, kind) ==
    {i \in 1..Len(log) : log[i].type = type /\ log[i].kind = kind}

\* between two entries of `lost` in the log there is an entry of `back`
Alternates(type, lost, back) ==
    \A i, j \in Entries(type, lost) :
        i < j => \E k \in Entries(type, back) : i < k /\ k < j

\* C9: at most one task is in a disconnect handler or a reconnection loop;
\* _handle_disconnect goes past its guard, stamps last_disconnect_time and
\* enters its loop only from the state Connected; and while the state is not
\* Connected, whatever fails, no second 'disconnected' event is written and
\* on_disconnected is not invoked again: two of them are always separated by a
\* 'reconnected' event, respectively an on_connected callback.
C9_SingleReconnection ==
    /\ [](Cardinality({t \in Reconnectors :
                          pc[t] \in DisconnectPcs \cup AttemptPcs}) <= 1)
    /\ [](Alternates("event", "disconnected", "reconnected"))
    /\ [](Alternates("callback", "on_disconnected", "on_connected"))
    /\ [][last_disconnect_time' # last_disconnect_time
            => (is_connected /\ ~is_connected' /\ pc["monitor"] = "m_probe")]_vars
    /\ [][(pc'["monitor"] \in DisconnectPcs /\ pc["monitor"] \notin DisconnectPcs)
            => (is_connected /\ ~is_connected')]_vars
    /\ [][(pc'["monitor"] \in AttemptPcs /\ pc["monitor"] \notin AttemptPcs)
            => (pc["monitor"] = "hd_cb" /\ pc["start"] \notin AttemptPcs)]_vars

\* C9 witness: an attempt of the monitor's reconnection loop failed while the
\* state was not Connected, and the log holds one 'disconnected' event and one
\* on_disconnected callback
C9_Witness ==
    /\ pc["monitor"] = "ar_sleep"
    /\ reconnect_attempts = 2
    /\ ~is_connected
    /\ Cardinality(Entries("event", "disconnected")) = 1
    /\ Cardinality(Entries("callback", "on_disconnected")) = 1

\* where each kind of event is written, and where its caller goes on
EventPc(kind) ==
    CASE kind = "connected" -> "c_log"
      [] kind = "disconnected" -> "hd_log"
      [] kind = "reconnected" -> "ar_log"

AfterEventPc(kind) ==
    CASE kind = "connected" -> "c_cb"
      [] kind = "disconnected" -> "hd_cb"
      [] kind = "reconnected" -> "ar_cb"

\* C10: the step that writes a lifecycle event goes on the same way whether
\* the insert succeeded or failed: the task that wrote it continues at the
\* callback that follows, the counter is reset after 'reconnected' and
\* untouched otherwise, and the connection state, the client, the sessions,
\* the waits, the monitor task and the result of start() are unchanged.
C10_EventFailureHarmless ==
    [][(Len(log') = Len(log) + 1 /\ log'[Len(log')].type = "event") =>
          LET kind == log'[Len(log')].kind
          IN  \E t \in Reconnectors :
                 /\ pc[t] = EventPc(kind)
                 /\ pc' = [pc EXCEPT ![t] = AfterEventPc(kind)]
                 /\ reconnect_attempts' =
                        IF kind = "reconnected" THEN 0 ELSE reconnect_attempts
                 /\ UNCHANGED <<is_connected, client, should_run, monitor_task,
                                last_disconnect_time, backoff_seconds, href,
                                cancel_req, live, start_result, stops>>]_vars

\* C10 witness: the insert of a 'disconnected' event failed, and the monitor
\* reconnected, invoked on_connected and is back at its health check
C10_Witness ==
    /\ \E i \in Entries("event", "disconnected") :
          /\ ~log[i].ok
          /\ \E k \in Entries("callback", "on_connected") : i < k /\ log[k].ok
    /\ is_connected
    /\ pc["monitor"] = "m_sleep"

\* C11: the step that invokes a callback goes on the same way whether the
\* callback returned or raised: after on_connected the state stays Connected
\* (is_connected is not changed), the attempt is a success (no further
\* attempt, start() returns True), and after on_disconnected the reconnection
\* loop starts as long as should_run holds.
C11_CallbackFailureHarmless ==
    /\ [][\A t \in Reconnectors :
            (pc[t] \in {"c_cb", "ar_cb"} /\ pc'[t] # pc[t]
             /\ Len(log') = Len(log) + 1)
                => /\ is_connected' = is_connected
                   /\ pc'[t] \notin AttemptPcs
                   /\ (t = "start" => start_result' = "true")]_vars
    /\ [][(pc["monitor"] = "hd_cb" /\ Len(log') = Len(log) + 1 /\ should_run)
            => pc'["monitor"] = "ar_sleep"]_vars

\* the step in which _attempt_reconnect of task t returns False: its
\* set_security_string or connect raised, or on_connected raised (lines 203-206)
AttemptFails(t) ==
    /\ Runs(t)
    /\ \/ /\ pc[t] \in {"ar_security", "ar_connect"}
          /\ pc'[t] \notin {"ar_security", "ar_connect", "ar_log", "ar_cb"}
       \/ /\ pc[t] = "ar_cb"
          /\ Len(log') = Len(log) + 1
          /\ log'[Len(log')] = Callback("on_connected", FALSE)

\* C25: when a reconnection attempt returns False the counter is one higher
\* than it was when the attempt began (it is at least 1 and the wait of the
\* attempt was the one of the counter less 1), and the counter goes to 0 only
\* in an attempt, which then returns True
C25_FailedAttemptCountsOnce ==
    /\ [][\A t \in Reconnectors :
            AttemptFails(t)
                => /\ reconnect_attempts >= 1
                   /\ backoff_seconds[t] =
                        <<1, 2, 5, 10, 30, 60>>[Min(reconnect_attempts - 1, 5) + 1]]_vars
    /\ [][(reconnect_attempts # 0 /\ reconnect_attempts' = 0)
            => \E t \in Reconnectors :
                 pc[t] \in {"ar_connect", "ar_log"} /\ pc'[t] = "ar_cb"]_vars

\* C26: the step in which a probe fails while Connected sets the state to
\* Disconnected and last_disconnect_time to the current time, and writes no
\* event and calls no callback yet; while the disconnect is handled the state
\* stays Disconnected, get_client() returns None and last_disconnect_time is
\* kept; the next step of the task emits the 'disconnected' event (with a
\* db_pool), the one after it invokes on_disconnected, and that same step
\* begins the first attempt (counter 1, wait 1 s) as long as should_run
\* holds; an attempt of the monitor begins only there or after a failed
\* attempt; no event is emitted twice for one disconnect
C26_DisconnectSequence ==
    /\ [][(pc["monitor"] = "m_probe" /\ pc'["monitor"] \in DisconnectPcs)
            => /\ is_connected /\ ~is_connected'
               /\ last_disconnect_time' = now
               /\ log' = log
               /\ pc'["monitor"] = IF db_pool THEN "hd_log" ELSE "hd_cb"]_vars
    /\ [](pc["monitor"] \in DisconnectPcs
            => (~is_connected /\ get_client = None /\ last_disconnect_time # NoTime))
    /\ [][pc["monitor"] \in DisconnectPcs
            => last_disconnect_time' = last_disconnect_time]_vars
    /\ [][(pc["monitor"] = "hd_log" /\ pc'["monitor"] # "hd_log" /\ ~cancel_req)
            => /\ pc'["monitor"] = "hd_cb"
               /\ Len(log') = Len(log) + 1
               /\ log'[Len(log')].type = "event"
               /\ log'[Len(log')].kind = "disconnected"]_vars
    /\ [][(pc["monitor"] = "hd_cb" /\ pc'["monitor"] # "hd_cb" /\ ~cancel_req)
            => /\ Len(log') = Len(log) + 1
               /\ log'[Len(log')].type = "callback"
               /\ log'[Len(log')].kind = "on_disconnected"
               /\ should_run
                    => /\ pc'["monitor"] = "ar_sleep"
                       /\ reconnect_attempts' = 1
                       /\ backoff_seconds'["monitor"] = 1]_vars
    /\ [][(pc["monitor"] # "ar_sleep" /\ pc'["monitor"] = "ar_sleep")
            => pc["monitor"] \in {"hd_cb", "ar_security", "ar_connect", "ar_cb"}]_vars
    /\ [][(Len(log') > Len(log) /\ log'[Len(log')].kind = "disconnected")
            => pc["monitor"] = "hd_log"]_vars
    /\ [][(Len(log') > Len(log) /\ log'[Len(log')].kind = "on_disconnected")
            => pc["monitor"] = "hd_cb"]_vars

\* C26: a probe failed, the 'disconnected' event and then on_disconnected
\* were made, and the first reconnection attempt sleeps
C26_Witness ==
    /\ pc["monitor"] = "ar_sleep"
    /\ reconnect_attempts = 1
    /\ ~is_connected
    /\ last_disconnect_time # NoTime
    /\ Len(log) >= 2
    /\ log[Len(log) - 1] = Event("disconnected", TRUE)
    /\ log[Len(log)] = Callback("on_disconnected", TRUE)

\* C27 as stated: a probe is in flight only while Connected, a reconnection
\* routine is executing only while not Connected, and never both at once
C27_ProbeXorReconnect ==
    /\ pc["monitor"] = "m_probe" => is_connected
    /\ \A t \in Reconnectors : Reconnecting(t) => ~is_connected
    /\ ~(pc["monitor"] = "m_probe" /\ \E t \in Reconnectors : Reconnecting(t))

\* C27: a probe is in flight only while Connected; a reconnection routine
\* sleeps, disconnects the old client, sets the security and calls connect
\* only while not Connected (the state is Connected only in its last steps,
\* the 'reconnected' event and on_connected, after its connect succeeded);
\* no probe is in flight while a reconnection routine is executing
C27_ProbeAndReconnectExclusive ==
    /\ pc["monitor"] = "m_probe" => is_connected
    /\ \A t \in Reconnectors :
          pc[t] \in {"ar_sleep", "ar_olddisc", "ar_security", "ar_connect"}
              => ~is_connected
    /\ \A t \in Reconnectors : Reconnecting(t) => pc["monitor"] # "m_probe"

\* C27: after a probe failure the monitor's attempt has connected: the state
\* is Connected while the routine still has its event and callback to make
C27_Witness ==
    /\ pc["monitor"] = "ar_log"
    /\ is_connected
    /\ last_disconnect_time # NoTime
    /\ get_client # None

\* C28: whenever a 'reconnected' event is being written, by the routine of
\* start() or of the monitor, the counter it carries is at least 1 (the reset
\* comes after the event) and the downtime it carries is defined and not
\* negative
C28_ReconnectedEventData ==
    \A t \in Reconnectors :
        pc[t] = "ar_log"
            => /\ reconnect_attempts >= 1
               /\ downtime_seconds[t] # NoTime
               /\ downtime_seconds[t] >= 0

\* C29: a reconnection attempt that finds a client from before creates its
\* new client only in the step in which the disconnect of the old one ends
\* (returned, raised or interrupted), after which the old one is not live;
\* and at most one session opened by the manager is live at any time
C29_OneLiveSession ==
    /\ [][\A t \in Reconnectors :
            (pc[t] \in {"ar_sleep", "ar_olddisc"} /\ pc'[t] # pc[t] /\ client' # client
             /\ client # None)
                => (pc[t] = "ar_olddisc" /\ client \notin live')]_vars
    /\ [](Cardinality(live) <= 1)

\* C29: the monitor's attempt has disconnected the session whose probe
\* failed and connected a new one, which is the only live session
C29_Witness ==
    /\ pc["monitor"] \in {"ar_log", "ar_cb"}
    /\ last_disconnect_time # NoTime
    /\ is_connected
    /\ live = {client}
    /\ reconnect_attempts >= 2

\* C30: in the step in which stop() calls disconnect() the health-check task
\* does not exist or has ended, and no task of the manager is at a probe, at
\* a connect or set_security_string call, or in a backoff sleep
C30_StopAfterMonitorEnded ==
    [][(pc["stop"] # "s_disc" /\ (pc'["stop"] = "s_disc" \/ stops' > stops))
        => /\ pc["monitor"] \in {"none", "m_done"}
           /\ \A t \in Tasks :
                 pc[t] \notin {"m_probe", "m_sleep", "c_security", "c_connect",
                               "ar_sleep", "ar_security", "ar_connect"}]_vars

\* the lifecycle events emitted so far (stored or not), oldest first
EventKinds ==
    LET ev == SelectSeq(log, LAMBDA x : x.type = "event")
    IN  [i \in 1..Len(ev) |-> ev[i].kind]

\* C39: the first lifecycle event is 'connected'; every later event is
\* 'disconnected' or 'reconnected'; a 'disconnected' event follows a
\* 'connected' or 'reconnected' one and a 'reconnected' event follows a
\* 'disconnected' one
C39_EventsAlternate ==
    /\ Len(EventKinds) >= 1 => EventKinds[1] = "connected"
    /\ \A i \in 2..Len(EventKinds) :
          \/ /\ EventKinds[i] = "disconnected"
             /\ EventKinds[i - 1] \in {"connected", "reconnected"}
          \/ /\ EventKinds[i] = "reconnected"
             /\ EventKinds[i - 1] = "disconnected"

----------------------------------------------------------------------------
(* BreakDetector: its pure parts *)

\* round(ta_percent, 4) of a value given in units of 0.00001 (no value used
\* here ends in 5, so ties do not arise)
Round4(x) == (x + 5) \div 10

\* check_frozen line 158: the key of a reading; fault_time_sec is in
\* milliseconds here, which is what round(.., 3) keeps
KeyOf(r) == <<Round4(r.ta_percent), r.fault_time_sec>>

\* check_frozen lines 152-167: frozen_count after the call on `batch`
FrozenCountAfter(batch) ==
    IF batch = <<>>
    THEN frozen_count
    ELSE LET seq_id == batch[1].sequence_id
         IN  IF prev_ta[seq_id] # NoKey
             THEN IF prev_ta[seq_id] = KeyOf(batch[1]) THEN frozen_count + 1 ELSE 0
             ELSE frozen_count

\* check_frozen line 167: prev_ta after the call on `batch`
PrevTaAfter(batch) ==
    IF batch = <<>>
    THEN prev_ta
    ELSE [prev_ta EXCEPT ![batch[1].sequence_id] = KeyOf(batch[1])]

\* check_frozen lines 152-153, 169: what the call on `batch` returns
check_frozen(batch) ==
    batch # <<>> /\ FrozenCountAfter(batch) >= FREEZE_THRESHOLD

\* _find_scheduled_break lines 100-105: the shift of a time of day
ShiftOf(t) ==
    IF HMS(6, 0, 0) <= t /\ t < HMS(14, 0, 0) THEN 1
    ELSE IF HMS(14, 0, 0) <= t /\ t < HMS(22, 0, 0) THEN 2
    ELSE 3

\* lines 112-113: the times of day 5 minutes before the start and 5 minutes
\* after the end of an entry (.time() drops the date)
BufferedStart(brk) == (brk.start_time - HMS(0, 5, 0) + DaySeconds) % DaySeconds
BufferedEnd(brk) == (brk.end_time + HMS(0, 5, 0)) % DaySeconds

\* InWindow, but entries of every shift are considered
InWindowAnyShift(brk, t) ==
    /\ BufferedStart(brk) <= t
    /\ t <= BufferedEnd(brk)

\* lines 108-115: the test made on one entry
InWindow(brk, t) ==
    /\ brk.shift_number = ShiftOf(t)
    /\ BufferedStart(brk) <= t
    /\ t <= BufferedEnd(brk)

\* _find_scheduled_break at time t: the first entry that passes, or None
FindScheduledBreak(t) ==
    LET hits == {i \in 1..Len(scheduled_breaks) : InWindow(scheduled_breaks[i], t)}
    IN  IF hits = {}
        THEN NoBreak
        ELSE scheduled_breaks[CHOOSE i \in hits : \A j \in hits : i <= j]

\* EarlyMinutes, but exactly the tolerance counts as on time too
EarlyMinutesInclusive(brk, actual_start) ==
    LET diff_seconds == brk.start_time - actual_start
        early_minutes == Max(0, diff_seconds \div 60)
    IN  IF early_minutes <= EARLY_LATE_TOLERANCE_MIN THEN 0 ELSE early_minutes

\* _insert_break_start lines 216-223
EarlyMinutes(brk, actual_start) ==
    LET diff_seconds == brk.start_time - actual_start
        early_minutes == Max(0, diff_seconds \div 60)
    IN  IF early_minutes < EARLY_LATE_TOLERANCE_MIN THEN 0 ELSE early_minutes

\* _update_break_end lines 245-249: the value stored as late_end_minutes
LateMinutes(brk, actual_end) ==
    LET diff_seconds == actual_end - brk.end_time
    IN  Max(0, diff_seconds \div 60)

\* _update_break_end lines 261-269: the row after the UPDATE
ClosedRow(row, brk, actual_end) ==
    [row EXCEPT !.end_time = actual_end,
                !.duration_minutes = (actual_end - row.start_time) \div 60,
                !.late_end_minutes = LateMinutes(brk, actual_end)]

----------------------------------------------------------------------------
(* BreakDetector.process and OEEDataCollector.shutdown *)

\* the manager's variables but the fault count
mvars_less_faults ==
    <<client, is_connected, reconnect_attempts, should_run, monitor_task,
      last_disconnect_time, db_pool, security, pc,
      backoff_seconds, href, cancel_req, live, log, downtime_seconds,
      start_result, stops, now>>

\* process lines 204-208
ResetBreakState ==
    /\ in_break' = FALSE
    /\ current_scheduled_break' = NoBreak
    /\ current_break_id' = None

\* process, lines 176-208, on `batch`, up to its first await: check_frozen,
\* then the insert of a break start is awaited, or the update of a break end,
\* or process returns
ProcessBody(batch) ==
    /\ FrozenCountAfter(batch) <= MaxFrozen
    /\ prev_ta' = PrevTaAfter(batch)
    /\ frozen_count' = FrozenCountAfter(batch)
    /\ IF ~in_break /\ check_frozen(batch)
       THEN IF FindScheduledBreak(clock) # NoBreak
            THEN /\ Len(actual_breaks) < MaxBreaks
                 /\ in_break' = TRUE
                 /\ current_scheduled_break' = FindScheduledBreak(clock)
                 /\ proc_now' = clock
                 /\ cpc' = "bd_insert"
                 /\ UNCHANGED current_break_id
            ELSE /\ cpc' = "sleep"
                 /\ UNCHANGED <<in_break, current_scheduled_break,
                                current_break_id, proc_now>>
       ELSE IF in_break /\ ~check_frozen(batch)
       THEN IF current_break_id # None
            THEN /\ proc_now' = clock
                 /\ cpc' = "bd_update"
                 /\ UNCHANGED <<in_break, current_scheduled_break, current_break_id>>
            ELSE /\ ResetBreakState
                 /\ cpc' = "sleep"
                 /\ UNCHANGED proc_now
       ELSE /\ cpc' = "sleep"
            /\ UNCHANGED <<in_break, current_scheduled_break,
                           current_break_id, proc_now>>

\* a call of process with any batch, between two sleeps of the polling loop
Process ==
    /\ cpc = "sleep"
    /\ running
    /\ \E batch \in TaBatches : ProcessBody(batch)
    /\ UNCHANGED <<clock, scheduled_breaks, actual_breaks, running, shutdowns,
                   pool_closed>>
    /\ UNCHANGED mvars
    /\ UNCHANGED <<fvars, tvars, dvars>>

\* InsertBreakStart, but an INSERT that raises is not caught by collect_once:
\* it ends the polling loop and run() goes to shutdown
InsertBreakStartFatal ==
    /\ cpc = "bd_insert"
    /\ running
    /\ \/ /\ actual_breaks' = Append(actual_breaks,
                 OpenRow(proc_now, current_scheduled_break,
                         EarlyMinutes(current_scheduled_break, proc_now)))
          /\ current_break_id' = Len(actual_breaks) + 1
          /\ cpc' = "sleep"
          /\ UNCHANGED <<faults, running, shutdowns>>
       \/ /\ FaultAllowed
          /\ faults' = faults + 1
          /\ running' = FALSE
          /\ shutdowns' = shutdowns + 1
          /\ cpc' = "sd_stop"
          /\ UNCHANGED <<actual_breaks, current_break_id>>
    /\ proc_now' = NoTime
    /\ UNCHANGED <<clock, scheduled_breaks, prev_ta, frozen_count, in_break,
                   current_scheduled_break, pool_closed>>
    /\ UNCHANGED mvars_less_faults
    /\ UNCHANGED <<fvars, tvars, dvars>>

\* _insert_break_start lines 225-233 and process line 186: the INSERT returns
\* the id of the new row, or it raises and the exception ends the tick
\* (collect_once line 616)
InsertBreakStart ==
    /\ cpc = "bd_insert"
    /\ running
    /\ \/ /\ actual_breaks' = Append(actual_breaks,
                 OpenRow(proc_now, current_scheduled_break,
                         EarlyMinutes(current_scheduled_break, proc_now)))
          /\ current_break_id' = Len(actual_breaks) + 1
          /\ UNCHANGED faults
       \/ /\ FaultAllowed
          /\ faults' = faults + 1
          /\ UNCHANGED <<actual_breaks, current_break_id>>
    /\ cpc' = "sleep"
    /\ proc_now' = NoTime
    /\ UNCHANGED <<clock, scheduled_breaks, prev_ta, frozen_count, in_break,
                   current_scheduled_break, running, shutdowns, pool_closed>>
    /\ UNCHANGED mvars_less_faults
    /\ UNCHANGED <<fvars, tvars, dvars>>

\* UpdateBreakEnd, but process resets its state when the update failed too
UpdateBreakEndForgets ==
    /\ cpc = "bd_update"
    /\ running
    /\ \/ /\ actual_breaks' = [actual_breaks EXCEPT ![current_break_id] =
                 ClosedRow(@, current_scheduled_break, proc_now)]
          /\ UNCHANGED faults
       \/ /\ FaultAllowed
          /\ faults' = faults + 1
          /\ UNCHANGED actual_breaks
    /\ ResetBreakState
    /\ cpc' = "sleep"
    /\ proc_now' = NoTime
    /\ UNCHANGED <<clock, scheduled_breaks, prev_ta, frozen_count, running,
                   shutdowns, pool_closed>>
    /\ UNCHANGED mvars_less_faults
    /\ UNCHANGED <<fvars, tvars, dvars>>

\* _update_break_end lines 252-269 and process lines 199-208: the row is
\* updated and the state reset, or the SELECT or the UPDATE raises and the
\* exception ends the tick with the state as it was
UpdateBreakEnd ==
    /\ cpc = "bd_update"
    /\ running
    /\ \/ /\ actual_breaks' = [actual_breaks EXCEPT ![current_break_id] =
                 ClosedRow(@, current_scheduled_break, proc_now)]
          /\ ResetBreakState
          /\ UNCHANGED faults
       \/ /\ FaultAllowed
          /\ faults' = faults + 1
          /\ UNCHANGED <<actual_breaks, in_break, current_scheduled_break,
                         current_break_id>>
    /\ cpc' = "sleep"
    /\ proc_now' = NoTime
    /\ UNCHANGED <<clock, scheduled_breaks, prev_ta, frozen_count, running,
                   shutdowns, pool_closed>>
    /\ UNCHANGED mvars_less_faults
    /\ UNCHANGED <<fvars, tvars, dvars>>

\* time passes while the polling loop sleeps, or waits for the store to
\* update a row
Advance ==
    /\ running
    /\ cpc \in {"sleep", "bd_update"}
    /\ \E t \in Instants : t > clock /\ clock' = t
    /\ UNCHANGED <<scheduled_breaks, prev_ta, frozen_count, in_break,
                   current_scheduled_break, current_break_id, actual_breaks,
                   running, cpc, proc_now, shutdowns, pool_closed>>
    /\ UNCHANGED mvars
    /\ UNCHANGED <<fvars, tvars, dvars>>

\* shutdown lines 695-698: where it first suspends
ShutdownEntry ==
    IF in_break /\ current_break_id # None THEN "sd_update" ELSE "sd_stop"

\* The polling loop ends only when its coroutine is interrupted at an await
\* (run lines 678-688: `running` is cleared by shutdown alone); the finally
\* clause then runs shutdown. A statement of the store that was in flight is
\* either done or not done: the interruption races with its completion on the
\* server. What process would have done after the await is not done.
Interrupt ==
    /\ running
    /\ cpc \in {"sleep", "bd_insert", "bd_update"}
    /\ \E applied \in BOOLEAN :
          actual_breaks' =
              IF applied /\ cpc = "bd_insert"
              THEN Append(actual_breaks,
                       OpenRow(proc_now, current_scheduled_break,
                               EarlyMinutes(current_scheduled_break, proc_now)))
              ELSE IF applied /\ cpc = "bd_update"
              THEN [actual_breaks EXCEPT ![current_break_id] =
                       ClosedRow(@, current_scheduled_break, proc_now)]
              ELSE actual_breaks
    /\ running' = FALSE
    /\ shutdowns' = shutdowns + 1
    /\ proc_now' = NoTime
    /\ cpc' = ShutdownEntry
    /\ UNCHANGED <<clock, scheduled_breaks, prev_ta, frozen_count, in_break,
                   current_scheduled_break, current_break_id, pool_closed>>
    /\ UNCHANGED mvars
    /\ UNCHANGED <<fvars, tvars, dvars>>

\* shutdown lines 700-708: the forced close with datetime.now(); it raises on
\* a closed pool or on a failing statement, and the exception is logged and
\* dropped
ShutdownUpdate ==
    /\ cpc = "sd_update"
    /\ \/ /\ ~pool_closed
          /\ actual_breaks' = [actual_breaks EXCEPT ![current_break_id] =
                 ClosedRow(@, current_scheduled_break, clock)]
          /\ UNCHANGED faults
       \/ /\ pool_closed \/ FaultAllowed
          /\ faults' = IF pool_closed THEN faults ELSE faults + 1
          /\ UNCHANGED actual_breaks
    /\ cpc' = "sd_stop"
    /\ UNCHANGED <<clock, scheduled_breaks, prev_ta, frozen_count, in_break,
                   current_scheduled_break, current_break_id, running,
                   proc_now, shutdowns, pool_closed>>
    /\ UNCHANGED mvars_less_faults
    /\ UNCHANGED <<fvars, tvars, dvars>>

\* shutdown lines 711-712: connection_manager.stop() is called
ShutdownStop ==
    /\ cpc = "sd_stop"
    /\ stops < shutdowns
    /\ StopCall

\* shutdown lines 715-722: stop() has returned; the pool is closed
ShutdownClosePool ==
    /\ cpc = "sd_stop"
    /\ stops = shutdowns
    /\ pc["stop"] = "idle"
    /\ pool_closed' = TRUE
    /\ cpc' = "done"
    /\ UNCHANGED <<clock, scheduled_breaks, prev_ta, frozen_count, in_break,
                   current_scheduled_break, current_break_id, actual_breaks,
                   running, proc_now, shutdowns>>
    /\ UNCHANGED mvars
    /\ UNCHANGED <<fvars, tvars, dvars>>

\* shutdown() is called once more after it completed
ShutdownAgain ==
    /\ cpc = "done"
    /\ shutdowns < MaxStops
    /\ shutdowns' = shutdowns + 1
    /\ running' = FALSE
    /\ cpc' = ShutdownEntry
    /\ UNCHANGED <<clock, scheduled_breaks, prev_ta, frozen_count, in_break,
                   current_scheduled_break, current_break_id, actual_breaks,
                   proc_now, pool_closed>>
    /\ UNCHANGED mvars
    /\ UNCHANGED <<fvars, tvars, dvars>>

\* the manager as run() has it when the polling loop begins (lines 642-676):
\* start() returned True with a db_pool, the monitor task is in its first sleep
ManagerStarted ==
    /\ client = 1
    /\ is_connected = TRUE
    /\ reconnect_attempts = 0
    /\ should_run = TRUE
    /\ monitor_task = TRUE
    /\ last_disconnect_time = NoTime
    /\ db_pool = TRUE
    /\ security = FALSE
    /\ pc = [t \in Tasks |-> IF t = "monitor" THEN "m_sleep"
                             ELSE IF t = "start" THEN "ret_true" ELSE "idle"]
    /\ backoff_seconds = [t \in Reconnectors |-> 0]
    /\ downtime_seconds = [t \in Reconnectors |-> NoTime]
    /\ href = [t \in Tasks |-> None]
    /\ cancel_req = FALSE
    /\ live = {1}
    /\ log = <<Event("connected", TRUE), Callback("on_connected", TRUE)>>
    /\ start_result = "true"
    /\ stops = 0
    /\ faults = 0
    /\ now = 0

\* run() line 676: the schedule is loaded, the polling loop begins
BreakInit ==
    /\ ManagerStarted
    /\ clock = FirstInstant
    /\ scheduled_breaks \in Schedules
    /\ prev_ta = [u \in Units |-> NoKey]
    /\ frozen_count = 0
    /\ in_break = FALSE
    /\ current_scheduled_break = NoBreak
    /\ current_break_id = None
    /\ actual_breaks = <<>>
    /\ running = TRUE
    /\ cpc = "sleep"
    /\ proc_now = NoTime
    /\ shutdowns = 0
    /\ pool_closed = FALSE
    /\ batches = <<>>
    /\ is_frozen = FALSE
    /\ tick = NoTick
    /\ ticks = 0
    /\ weekday = Today
    /\ quality_counters = {}

BreakNext ==
    \/ Advance
    \/ Process
    \/ InsertBreakStart
    \/ UpdateBreakEnd
    \/ Interrupt
    \/ ShutdownUpdate
    \/ ShutdownStop
    \/ MonitorCancelled
    \/ StopAwait
    \/ StopDisconnect
    \/ ShutdownClosePool
    \/ ShutdownAgain

\* the break detector driven by process calls with any batches, and shutdown
BreakSpec == BreakInit /\ [][BreakNext]_vars

----------------------------------------------------------------------------
(* check_frozen taken alone, from a fresh tracker *)

\* one call of check_frozen, lines 146-169, on any batch
CheckFrozenCall ==
    /\ Len(batches) < MaxReadings
    /\ \E batch \in TaBatches :
          /\ prev_ta' = PrevTaAfter(batch)
          /\ frozen_count' = FrozenCountAfter(batch)
          /\ is_frozen' = check_frozen(batch)
          /\ batches' = Append(batches, batch)
    /\ UNCHANGED <<clock, scheduled_breaks, in_break, current_scheduled_break,
                   current_break_id, actual_breaks, running, cpc, proc_now,
                   shutdowns, pool_closed>>
    /\ UNCHANGED <<tvars, dvars>>
    /\ UNCHANGED mvars

FrozenSpec == Init /\ [][CheckFrozenCall]_vars

\* the calls i..j were all made with a batch whose first element is a reading
\* of unit 47, and these readings have one and the same key
IdenticalRun(i, j) ==
    \A k \in i..j :
        /\ batches[k] # <<>>
        /\ batches[k][1].sequence_id = 47
        /\ KeyOf(batches[k][1]) = KeyOf(batches[i][1])

\* C12: from a fresh tracker, after 3 calls with identical readings of the
\* reference unit the third call returned frozen; after 2 it did not; and
\* after 3 identical readings and a fourth that differs, frozen_count is 0 and
\* the call returned not frozen.
C12_ThreeIdenticalReadingsFreeze ==
    /\ (Len(batches) = 3 /\ IdenticalRun(1, 3)) => is_frozen
    /\ (Len(batches) = 2 /\ IdenticalRun(1, 2)) => ~is_frozen
    /\ (/\ Len(batches) = 4
        /\ IdenticalRun(1, 3)
        /\ batches[4] # <<>>
        /\ batches[4][1].sequence_id = 47
        /\ KeyOf(batches[4][1]) # KeyOf(batches[1][1]))
            => (frozen_count = 0 /\ ~is_frozen)

\* the calls made with a batch that is not empty, oldest first
NonEmptyBatches == SelectSeq(batches, LAMBDA b : b # <<>>)

\* C40: when the last call returned frozen, the last FREEZE_THRESHOLD calls
\* that had a reading at all had one and the same unit as their first element
\* and that unit's readings had one and the same key
C40_FrozenByOneUnit ==
    is_frozen
        => LET n == Len(NonEmptyBatches)
           IN  /\ n >= FREEZE_THRESHOLD
               /\ \A k \in (n - FREEZE_THRESHOLD + 1)..n :
                     /\ NonEmptyBatches[k][1].sequence_id
                            = NonEmptyBatches[n][1].sequence_id
                     /\ KeyOf(NonEmptyBatches[k][1]) = KeyOf(NonEmptyBatches[n][1])

----------------------------------------------------------------------------
(* The rows of actual_breaks *)

\* the rows of actual_breaks whose end_time is NULL
OpenRows == {i \in 1..Len(actual_breaks) : actual_breaks[i].end_time = NoTime}

\* C13: after any sequence of process calls, with any batches, any schedule
\* matches and any failures of the store, at most one row of actual_breaks
\* has end_time NULL.
C13_AtMostOneOpenBreak == Cardinality(OpenRows) <= 1

\* C13: a first break was opened and closed, a second one is open, and the
\* store failed at least once on the way
C13_Witness ==
    /\ Len(actual_breaks) = 2
    /\ actual_breaks[1].end_time # NoTime
    /\ OpenRows = {2}
    /\ in_break
    /\ faults > 0
    /\ running

\* the window of an entry as the schedule states it: the entry is of the
\* shift of t, and t is no more than 5 minutes before its start and no more
\* than 5 minutes after its end
Covers(brk, t) ==
    /\ brk.shift_number = ShiftOf(t)
    /\ brk.start_time - 300 <= t
    /\ t <= brk.end_time + 300

\* some entry of the loaded schedule covers t
Covered(t) ==
    \E i \in 1..Len(scheduled_breaks) : Covers(scheduled_breaks[i], t)

\* C14: on a process call where the tracker is frozen and no entry of the
\* current shift has the current time within 5 minutes before its start and
\* 5 minutes after its end, no row is inserted and in_break stays false,
\* however long the freeze lasts; so every row of actual_breaks names an
\* entry of the shift of its start_time whose widened window contains it.
C14_NoBreakWithoutSchedule ==
    /\ [][(/\ cpc = "sleep"
           /\ running /\ running'
           /\ clock' = clock
           /\ ~in_break
           /\ frozen_count' >= FREEZE_THRESHOLD
           /\ ~Covered(clock))
              => /\ ~in_break'
                 /\ actual_breaks' = actual_breaks
                 /\ cpc' = "sleep"]_vars
    /\ [](\A i \in 1..Len(actual_breaks) :
            \E k \in 1..Len(scheduled_breaks) :
                /\ scheduled_breaks[k].id = actual_breaks[i].scheduled_break_id
                /\ Covers(scheduled_breaks[k], actual_breaks[i].start_time))

\* C14: the tracker has been frozen for longer than the threshold at a time
\* that only an entry of another shift covers, and no row was inserted
C14_Witness ==
    /\ scheduled_breaks = <<OtherShiftEntry>>
    /\ clock = HMS(10, 11, 0)
    /\ frozen_count > FREEZE_THRESHOLD
    /\ ~in_break
    /\ actual_breaks = <<>>
    /\ running

\* the rows of actual_breaks opened for the entry 10:00-10:10 of shift 1
MorningRows ==
    {i \in 1..Len(actual_breaks) :
        actual_breaks[i].scheduled_break_id = MorningBreak.id}

\* C15 as stated: for the entry 10:00-10:10 of shift 1, a break opened at
\* 09:58:00 is stored with early_start_minutes = 0 and one opened at
\* 09:56:00 with 4; in general early_start_minutes is
\* max(0, floor((scheduled_start - start) / 60 s)), replaced by 0 when it is
\* within the tolerance of 2 minutes, 2 included.
C15_TwoMinutesEarlyOnTime ==
    \A i \in MorningRows :
        LET row == actual_breaks[i]
            m == Max(0, (HMS(10, 0, 0) - row.start_time) \div 60)
        IN  /\ row.start_time = HMS(9, 58, 0) => row.early_start_minutes = 0
            /\ row.start_time = HMS(9, 56, 0) => row.early_start_minutes = 4
            /\ row.early_start_minutes = IF m <= 2 THEN 0 ELSE m

\* C15 amended: a break opened at 09:58:00 is stored with
\* early_start_minutes = 2, one opened at 09:59:00 with 0 and one opened at
\* 09:56:00 with 4; in general early_start_minutes is
\* max(0, floor((scheduled_start - start) / 60 s)), replaced by 0 only when
\* it is strictly under 2 minutes.
C15_EarlyStartMinutes ==
    \A i \in MorningRows :
        LET row == actual_breaks[i]
            m == Max(0, (HMS(10, 0, 0) - row.start_time) \div 60)
        IN  /\ row.start_time = HMS(9, 58, 0) => row.early_start_minutes = 2
            /\ row.start_time = HMS(9, 59, 0) => row.early_start_minutes = 0
            /\ row.start_time = HMS(9, 56, 0) => row.early_start_minutes = 4
            /\ row.early_start_minutes = IF m < 2 THEN 0 ELSE m

\* C15: a break was opened at 09:58:00 for the entry 10:00-10:10 and is
\* stored as 2 minutes early
C15_Witness ==
    \E i \in MorningRows :
        /\ actual_breaks[i].start_time = HMS(9, 58, 0)
        /\ actual_breaks[i].early_start_minutes = 2

\* C16: when a row is closed at time now, by process or by the forced close
\* of shutdown, the stored late_end_minutes is
\* max(0, floor((now - scheduled_end) / 60 s)), replaced by 0 when it is
\* under the tolerance of 2 minutes; so the stored value is never 1.
C16_LateEndClamped ==
    \A i \in MorningRows :
        LET row == actual_breaks[i]
            m == Max(0, (row.end_time - HMS(10, 10, 0)) \div 60)
        IN  row.end_time # NoTime =>
                /\ row.late_end_minutes = IF m < 2 THEN 0 ELSE m
                /\ row.late_end_minutes # 1

\* C17: every row is inserted once, on a break-start transition, and its end
\* fields are written at most once: rows are only appended, one at a time and
\* while the insert of a break start is awaited; a step that changes an open
\* row sets its end_time and a duration_minutes >= 0 and nothing of what the
\* insert wrote; and no step changes a row that is closed (a second close is
\* rejected or changes nothing).
C17_ClosedOnce ==
    [][/\ Len(actual_breaks') \in {Len(actual_breaks), Len(actual_breaks) + 1}
       /\ Len(actual_breaks') > Len(actual_breaks)
              => (cpc = "bd_insert" /\ in_break
                  /\ actual_breaks'[Len(actual_breaks')].end_time = NoTime)
       /\ \A i \in 1..Len(actual_breaks) :
              /\ actual_breaks[i].end_time # NoTime
                     => actual_breaks'[i] = actual_breaks[i]
              /\ (actual_breaks[i].end_time = NoTime
                  /\ actual_breaks'[i] # actual_breaks[i])
                     => /\ actual_breaks'[i].end_time # NoTime
                        /\ actual_breaks'[i].duration_minutes >= 0
                        /\ actual_breaks'[i].start_time = actual_breaks[i].start_time
                        /\ actual_breaks'[i].scheduled_break_id
                               = actual_breaks[i].scheduled_break_id
                        /\ actual_breaks'[i].early_start_minutes
                               = actual_breaks[i].early_start_minutes]_vars

\* C18: when shutdown runs while a row is open, the row is closed with
\* end_time = the current time before connection_manager.stop() is called
\* and before the pool is closed: from the point where shutdown is about to
\* stop the manager, and after it completed, no row has end_time NULL; and
\* the forced close stores the current time.
C18_ForceClosedAtShutdown ==
    /\ [](cpc \in {"sd_stop", "done"} => OpenRows = {})
    /\ [][(cpc = "sd_update" /\ cpc' = "sd_stop")
            => actual_breaks'[current_break_id].end_time = clock]_vars

\* C37: between two calls of process (the polling loop sleeps and runs),
\* in_break holds exactly when current_break_id and current_scheduled_break
\* are set and the row of that id exists in actual_breaks and is open
C37_InBreakHasOpenRecord ==
    (running /\ cpc = "sleep")
        => (in_break <=> /\ current_break_id # None
                         /\ current_scheduled_break # NoBreak
                         /\ current_break_id \in OpenRows)

----------------------------------------------------------------------------
(* OEEDataCollector.collect_once, from await to await *)

\* store_cycle_times lines 505-506; cycle times are in milliseconds here
TWIN_SYNC_STATIONS == {47, 48}
SKIP_CYCLE_THRESHOLD == 10000

\* read_cycle_times lines 415-419: what a successful read of a unit appends
CycleReadings(seq) ==
    {[sequence_id |-> seq, cycle_time_sec |-> 15000, desired_cycle_sec |-> 17000]}

\* _get_current_shift_and_hour, lines 337-387, on weekday wd at time of day t
ShiftAndHour(wd, t) ==
    LET shift_1_start == HMS(6, 0, 0)
        shift_2_start == IF wd = 5 THEN HMS(13, 30, 0) ELSE HMS(14, 0, 0)
        shift_3_start == IF wd = 5 THEN HMS(21, 0, 0) ELSE HMS(22, 0, 0)
        hour == t \div 3600
        minute == (t % 3600) \div 60
        shift == IF shift_1_start <= t /\ t < shift_2_start THEN 1
                 ELSE IF shift_2_start <= t /\ t < shift_3_start THEN 2
                 ELSE 3
        minutes_since_shift_start ==
            IF shift = 1 THEN (hour - 6) * 60 + minute
            ELSE IF shift = 2 THEN (hour - 14) * 60 + minute
            ELSE IF t >= shift_3_start THEN (hour - 22) * 60 + minute
            ELSE (hour + 2) * 60 + minute
    IN  <<shift, Min(minutes_since_shift_start \div 60, 7)>>

\* read_ta_data lines 451-457: what a successful read of a unit appends while
\* the machine stands still
StandstillTaReadings(seq) ==
    {TaReading(seq, IF seq = 47 THEN 9500000 ELSE 9000000, 0)}

\* read_quality_counters lines 484-490: what a successful read returns
QualityCounters ==
    {[shift |-> ShiftAndHour(weekday, clock)[1], hour |-> ShiftAndHour(weekday, clock)[2],
      good |-> 10, reject |-> 1, rework |-> 0]}

\* is_in_scheduled_break_time, lines 120-144: the exact window, no buffer
is_in_scheduled_break_time ==
    \E i \in 1..Len(scheduled_breaks) :
        /\ scheduled_breaks[i].shift_number = ShiftOf(clock)
        /\ scheduled_breaks[i].start_time <= clock
        /\ clock <= scheduled_breaks[i].end_time

\* store_cycle_times with a filter that drops every reading below the
\* threshold, whatever its unit
FilteredCyclesAnyUnit(cycles) ==
    SelectSeq(cycles, LAMBDA c : ~(c.cycle_time_sec < SKIP_CYCLE_THRESHOLD))

\* store_cycle_times lines 509-511
FilteredCycles(cycles) ==
    SelectSeq(cycles, LAMBDA c : ~(/\ c.sequence_id \in TWIN_SYNC_STATIONS
                                  /\ c.cycle_time_sec < SKIP_CYCLE_THRESHOLD))

\* collect_once line 608 with locals t: store_quality_counters returns at once
\* when there are no counters (line 570), else its INSERT is awaited; after it
\* comes process (line 611)
BeginStoreQuality(t) ==
    IF t.counters # NoCounters
    THEN [pc |-> "st_quality", t |-> t]
    ELSE [pc |-> "process", t |-> t]

\* collect_once line 607: store_ta_data returns at once on an empty list
\* (line 544), else its INSERT is awaited
BeginStoreTa(t) ==
    IF t.ta_data # <<>>
    THEN [pc |-> "st_ta", t |-> t]
    ELSE BeginStoreQuality(t)

\* collect_once lines 601-604: store_cycle_times is called unless the tick is
\* inside a scheduled break; it returns at once when nothing is left after the
\* filter (lines 501, 517), else its INSERT is awaited
BeginStoreCycles(t) ==
    IF ~t.in_scheduled_break /\ FilteredCycles(t.cycles) # <<>>
    THEN [pc |-> "st_cycle", t |-> t]
    ELSE BeginStoreTa(t)

\* read_quality_counters lines 466-472: without a client it returns None at
\* once, else the three counters are read
BeginReadQuality(t) ==
    IF get_client = None
    THEN BeginStoreCycles([t EXCEPT !.client = None, !.idx = 0])
    ELSE [pc |-> "rd_quality", t |-> [t EXCEPT !.client = get_client, !.idx = 0]]

\* read_ta_data lines 428-437: without a client it returns [] at once, else
\* the first unit is read
BeginReadTa(t) ==
    IF get_client = None
    THEN BeginReadQuality([t EXCEPT !.client = None, !.idx = 0])
    ELSE [pc |-> "rd_ta", t |-> [t EXCEPT !.client = get_client, !.idx = 1]]

\* BeginReadCycles, but the units are read whether there is a client or not
BeginReadCyclesUnchecked(t) ==
    [pc |-> "rd_cycle",
     t |-> [t EXCEPT !.client = get_client_unchecked, !.idx = 1]]

\* read_cycle_times lines 391-399: without a client it returns [] at once,
\* else the first unit is read
BeginReadCycles(t) ==
    IF get_client = None
    THEN BeginReadTa([t EXCEPT !.client = None, !.idx = 0])
    ELSE [pc |-> "rd_cycle", t |-> [t EXCEPT !.client = get_client, !.idx = 1]]

\* the collector goes on to `r`: it is suspended at the next await, or, when
\* no await is left before it, process is called with the TA data of the
\* tick (line 611; with no row to insert or update process returns at once)
ContinueTick(r) ==
    /\ tick' = r.t
    /\ IF r.pc = "process"
       THEN ProcessBody(r.t.ta_data)
       ELSE /\ cpc' = r.pc
            /\ UNCHANGED <<prev_ta, frozen_count, in_break,
                           current_scheduled_break, current_break_id, proc_now>>

\* what no step of collect_once before process changes
TickFrame ==
    /\ UNCHANGED <<clock, scheduled_breaks, actual_breaks, running, shutdowns,
                   pool_closed>>
    /\ UNCHANGED fvars
    /\ UNCHANGED weekday

\* run line 680, collect_once lines 591-596: a tick begins
CollectOnce ==
    /\ cpc = "sleep"
    /\ running
    /\ ticks < MaxTicks
    /\ ticks' = ticks + 1
    /\ ContinueTick(BeginReadCycles(
           [NoTick EXCEPT !.in_scheduled_break = is_in_scheduled_break_time]))
    /\ UNCHANGED quality_counters
    /\ TickFrame
    /\ UNCHANGED mvars

\* AfterUnit, but a read that raises ends the read function
AfterUnitAborting(t, group, ok, reading) ==
    LET seq == active_sequences[t.idx]
        t1 == [t EXCEPT !.attempted = @ \cup {<<group, seq>>},
                        !.failed = IF ok THEN @ ELSE @ \cup {<<group, seq>>},
                        !.cycles = IF ok /\ group = "cycle" THEN Append(@, reading) ELSE @,
                        !.ta_data = IF ok /\ group = "ta" THEN Append(@, reading) ELSE @]
    IN  IF ok /\ t.idx < Len(active_sequences)
        THEN [pc |-> cpc, t |-> [t1 EXCEPT !.idx = t.idx + 1]]
        ELSE [pc |-> "return", t |-> [t1 EXCEPT !.client = None, !.idx = 0]]

\* the read of a unit by the read function under way has ended: the unit is
\* read, or the read raised (as it does on a client whose session is closed);
\* after the last unit the function returns
AfterUnit(t, group, ok, reading) ==
    LET seq == active_sequences[t.idx]
        t1 == [t EXCEPT !.attempted = @ \cup {<<group, seq>>},
                        !.failed = IF ok THEN @ ELSE @ \cup {<<group, seq>>},
                        !.cycles = IF ok /\ group = "cycle" THEN Append(@, reading) ELSE @,
                        !.ta_data = IF ok /\ group = "ta" THEN Append(@, reading) ELSE @]
    IN  IF t.idx < Len(active_sequences)
        THEN [pc |-> cpc, t |-> [t1 EXCEPT !.idx = t.idx + 1]]
        ELSE [pc |-> "return", t |-> [t1 EXCEPT !.client = None, !.idx = 0]]

\* a read on the client of the read function under way returns only while
\* the session of that client is open; it raises on a closed session, and on
\* an open one when a fault is injected
ReadOutcome(ok) ==
    IF ok
    THEN tick.client \in live /\ UNCHANGED faults
    ELSE IF tick.client \in live
         THEN FaultAllowed /\ faults' = faults + 1
         ELSE UNCHANGED faults

\* read_cycle_times lines 399-424: one unit
ReadCycleTimes ==
    /\ cpc = "rd_cycle"
    /\ running
    /\ \E ok \in BOOLEAN, c \in CycleReadings(active_sequences[tick.idx]) :
          /\ ReadOutcome(ok)
          /\ LET r == AfterUnit(tick, "cycle", ok, c)
             IN  ContinueTick(IF r.pc = "return" THEN BeginReadTa(r.t) ELSE r)
    /\ UNCHANGED <<ticks, quality_counters>>
    /\ TickFrame
    /\ UNCHANGED mvars_less_faults

\* read_ta_data lines 437-462: one unit
ReadTaData ==
    /\ cpc = "rd_ta"
    /\ running
    /\ \E ok \in BOOLEAN, reading \in StandstillTaReadings(active_sequences[tick.idx]) :
          /\ ReadOutcome(ok)
          /\ LET r == AfterUnit(tick, "ta", ok, reading)
             IN  ContinueTick(IF r.pc = "return" THEN BeginReadQuality(r.t) ELSE r)
    /\ UNCHANGED <<ticks, quality_counters>>
    /\ TickFrame
    /\ UNCHANGED mvars_less_faults

\* read_quality_counters lines 474-494: the three counters are read in one
\* try; any of the reads raising gives None
ReadQualityCounters ==
    /\ cpc = "rd_quality"
    /\ running
    /\ LET t1 == [tick EXCEPT !.attempted = @ \cup {<<"quality", 0>>},
                              !.client = None]
       IN  \/ /\ ReadOutcome(TRUE)
              /\ \E q \in QualityCounters :
                    ContinueTick(BeginStoreCycles([t1 EXCEPT !.counters = q]))
           \/ /\ ReadOutcome(FALSE)
              /\ ContinueTick(BeginStoreCycles(
                     [t1 EXCEPT !.failed = @ \cup {<<"quality", 0>>}]))
    /\ UNCHANGED <<ticks, quality_counters>>
    /\ TickFrame
    /\ UNCHANGED mvars_less_faults

\* store_cycle_times lines 520-540: the INSERT is done, or it raises and the
\* exception is logged
StoreCycleTimes ==
    /\ cpc = "st_cycle"
    /\ running
    /\ \/ /\ ContinueTick(BeginStoreTa(
                 [tick EXCEPT !.stored.cycles = FilteredCycles(tick.cycles)]))
          /\ UNCHANGED faults
       \/ /\ FaultAllowed
          /\ faults' = faults + 1
          /\ ContinueTick(BeginStoreTa(
                 [tick EXCEPT !.store_failed = @ \cup {"cycle"}]))
    /\ UNCHANGED <<ticks, quality_counters>>
    /\ TickFrame
    /\ UNCHANGED mvars_less_faults

\* store_ta_data lines 547-566
StoreTaData ==
    /\ cpc = "st_ta"
    /\ running
    /\ \/ /\ ContinueTick(BeginStoreQuality(
                 [tick EXCEPT !.stored.ta = tick.ta_data]))
          /\ UNCHANGED faults
       \/ /\ FaultAllowed
          /\ faults' = faults + 1
          /\ ContinueTick(BeginStoreQuality(
                 [tick EXCEPT !.store_failed = @ \cup {"ta"}]))
    /\ UNCHANGED <<ticks, quality_counters>>
    /\ TickFrame
    /\ UNCHANGED mvars_less_faults

\* store_quality_counters lines 576-578 and 584-585: the row of the INSERT,
\* with time = datetime.now()
QualityRow(counters) ==
    [time |-> clock, shift_number |-> counters.shift, hour_index |-> counters.hour,
     good_parts |-> counters.good, reject_parts |-> counters.reject,
     rework_parts |-> counters.rework]

\* lines 576-583: INSERT ... ON CONFLICT (time, shift_number, hour_index) DO
\* UPDATE: a row with the same three values takes the counts of r, else r is
\* inserted
Upsert(rows, r) ==
    {x \in rows : ~(/\ x.time = r.time
                    /\ x.shift_number = r.shift_number
                    /\ x.hour_index = r.hour_index)} \cup {r}

\* store_quality_counters lines 573-587, then process (line 611)
StoreQualityCounters ==
    /\ cpc = "st_quality"
    /\ running
    /\ \/ /\ ContinueTick([pc |-> "process",
                           t |-> [tick EXCEPT !.stored.quality = tick.counters]])
          /\ quality_counters' = Upsert(quality_counters, QualityRow(tick.counters))
          /\ UNCHANGED faults
       \/ /\ FaultAllowed
          /\ faults' = faults + 1
          /\ ContinueTick([pc |-> "process",
                           t |-> [tick EXCEPT !.store_failed = @ \cup {"quality"}]])
          /\ UNCHANGED quality_counters
    /\ UNCHANGED ticks
    /\ TickFrame
    /\ UNCHANGED mvars_less_faults

\* the steps of collect_once
CollectorRun ==
    \/ CollectOnce
    \/ ReadCycleTimes
    \/ ReadTaData
    \/ ReadQualityCounters
    \/ StoreCycleTimes
    \/ StoreTaData
    \/ StoreQualityCounters

\* run() line 676 on a day without schedule entries: the polling loop begins
TickInit ==
    /\ ManagerStarted
    /\ clock = FirstInstant
    /\ scheduled_breaks = <<>>
    /\ prev_ta = [u \in Units |-> NoKey]
    /\ frozen_count = 0
    /\ in_break = FALSE
    /\ current_scheduled_break = NoBreak
    /\ current_break_id = None
    /\ actual_breaks = <<>>
    /\ running = TRUE
    /\ cpc = "sleep"
    /\ proc_now = NoTime
    /\ shutdowns = 0
    /\ pool_closed = FALSE
    /\ batches = <<>>
    /\ is_frozen = FALSE
    /\ tick = NoTick
    /\ ticks = 0
    /\ weekday = Today
    /\ quality_counters = {}

\* the health-check task of the manager, never cancelled
MonitorSteps ==
    \/ MonitorWake
    \/ MonitorProbe
    \/ DisconnectLog
    \/ DisconnectCallback
    \/ AttemptSleep("monitor")
    \/ AttemptOldDisconnect("monitor")
    \/ AttemptConnect("monitor")
    \/ AttemptLog("monitor")
    \/ AttemptCallback("monitor")

TickNext ==
    \/ CollectorRun
    \/ MonitorSteps

\* the polling loop beside the manager's health-check task
TickSpec == TickInit /\ [][TickNext]_vars

\* The event loop runs the collector's coroutine whenever the await it is
\* suspended at has ended; nothing is assumed of the manager's task, which
\* may stay in a backoff sleep, or fail to connect, for ever.
FairTickSpec ==
    /\ TickInit
    /\ [][TickNext]_vars
    /\ WF_vars(CollectorRun)

----------------------------------------------------------------------------
(* Claims on collect_once *)

ReadPcs == {"rd_cycle", "rd_ta", "rd_quality"}

\* C19: a tick that begins while the manager is not Connected (disconnected,
\* or anywhere in a reconnection attempt or its backoff sleep) finds no handle,
\* makes no read, changes nothing of the manager and is over in that one step,
\* back at the sleep of the polling loop; a read function reads only with a
\* handle it got while Connected, and reads are made by read functions only;
\* and wherever the manager's task is, the polling loop that sleeps can begin
\* its next tick.
C19_TickNeverWaits ==
    /\ [][(cpc = "sleep" /\ ticks' = ticks + 1 /\ ~is_connected)
            => /\ cpc' = "sleep"
               /\ tick'.attempted = {}
               /\ tick'.cycles = <<>>
               /\ tick'.ta_data = <<>>
               /\ tick'.counters = NoCounters
               /\ UNCHANGED mvars]_vars
    /\ [][(cpc' \in ReadPcs /\ cpc' # cpc)
            => (is_connected /\ tick'.client = client /\ client # None)]_vars
    /\ [][(tick'.attempted # tick.attempted /\ ticks' = ticks)
            => cpc \in ReadPcs]_vars
    /\ []((cpc = "sleep" /\ running /\ ticks < MaxTicks) => ENABLED CollectOnce)

\* C19: the last tick made no read, and the manager's task is in the backoff
\* sleep of its third attempt or a later one
C19_Witness ==
    /\ ticks = MaxTicks
    /\ cpc = "sleep"
    /\ tick.attempted = {}
    /\ ~is_connected
    /\ pc["monitor"] = "ar_sleep"
    /\ reconnect_attempts >= 3

\* the units of a field group that the tick tried to read, and those it read
AttemptedUnits(group) == {u \in Units : <<group, u>> \in tick.attempted}
ReadUnits(group) == {u \in Units : <<group, u>> \in tick.attempted \ tick.failed}

\* the units of the readings of a list
UnitsOf(readings) == {readings[i].sequence_id : i \in 1..Len(readings)}

-----------------------------------------------------------------------------
(* the polling loop over a day with a scheduled break *)

\* run line 681: time passes while the loop sleeps after a tick
PollingSleep ==
    /\ cpc = "sleep"
    /\ running
    /\ ticks > 0
    /\ \E t \in DayInstants(weekday) : t > clock /\ clock' = t
    /\ UNCHANGED <<scheduled_breaks, prev_ta, frozen_count, in_break,
                   current_scheduled_break, current_break_id, actual_breaks,
                   running, cpc, proc_now, shutdowns, pool_closed>>
    /\ UNCHANGED mvars
    /\ UNCHANGED <<fvars, tvars, dvars>>

\* the key check_frozen has stored for a unit whose standstill reading it saw
StandstillKey(u) == KeyOf(CHOOSE r \in StandstillTaReadings(u) : TRUE)

\* run() line 676 on a Wednesday or a Friday, with the schedule of the day
\* loaded: the polling loop begins; the tracker is fresh, or the machine
\* stands still and check_frozen has seen the reading of unit 47 three times
DayInit ==
    /\ ManagerStarted
    /\ weekday \in {Today, 5}
    /\ clock \in DayInstants(weekday)
    /\ scheduled_breaks = DaySchedule(weekday)
    /\ \/ /\ prev_ta = [u \in Units |-> NoKey]
          /\ frozen_count = 0
       \/ /\ prev_ta = [u \in Units |-> IF u = active_sequences[1]
                                         THEN StandstillKey(u) ELSE NoKey]
          /\ frozen_count = FREEZE_THRESHOLD - 1
    /\ in_break = FALSE
    /\ current_scheduled_break = NoBreak
    /\ current_break_id = None
    /\ actual_breaks = <<>>
    /\ running = TRUE
    /\ cpc = "sleep"
    /\ proc_now = NoTime
    /\ shutdowns = 0
    /\ pool_closed = FALSE
    /\ batches = <<>>
    /\ is_frozen = FALSE
    /\ tick = NoTick
    /\ ticks = 0
    /\ quality_counters = {}

DayNext ==
    \/ CollectorRun
    \/ PollingSleep
    \/ InsertBreakStart
    \/ UpdateBreakEnd

\* the polling loop with a steady connection: reads and INSERTs of the tick
\* may fail, and so may the INSERT and the UPDATE of a break record
DaySpec == DayInit /\ [][DayNext]_vars

\* C22: a tick at a time within the exact bounds [start_time, end_time] of a
\* loaded schedule entry writes no cycle-time row, and every tick, inside or
\* outside a break, ends with the availability rows and the quality-counter
\* row it read written to the store
C22_BreakGatesCyclesOnly ==
    /\ [][(tick'.stored.cycles # tick.stored.cycles /\ tick'.stored.cycles # <<>>)
            => ~\E i \in 1..Len(scheduled_breaks) :
                   /\ scheduled_breaks[i].start_time <= clock
                   /\ clock <= scheduled_breaks[i].end_time]_vars
    /\ [][(cpc # "sleep" /\ cpc' = "sleep")
            => /\ tick'.stored.ta = tick'.ta_data
               /\ tick'.stored.quality = tick'.counters]_vars

\* C23: the store never holds two quality-counter rows for one pair
\* (shift_number, hour_index), and after a tick has stored its counters the
\* row of that pair carries the counts of that tick
C23_OneRowPerShiftHour ==
    /\ [](\A r, q \in quality_counters :
            (r.shift_number = q.shift_number /\ r.hour_index = q.hour_index)
                => r = q)
    /\ [][(cpc = "st_quality" /\ tick'.stored.quality # NoCounters)
            => \E r \in quality_counters' :
                 /\ r.shift_number = tick.counters.shift
                 /\ r.hour_index = tick.counters.hour
                 /\ r.good_parts = tick.counters.good
                 /\ r.reject_parts = tick.counters.reject
                 /\ r.rework_parts = tick.counters.rework]_vars

\* C36: a step of a tick in which process is called with an empty
\* availability batch leaves the break state as it was: process returns at
\* once (no INSERT or UPDATE is awaited), and in_break, the freeze counter,
\* the id of the open record and the rows of actual_breaks are unchanged
C36_EmptyBatchChangesNothing ==
    [][(/\ cpc \notin {"bd_insert", "bd_update"}
        /\ cpc # "sleep" \/ ticks' = ticks + 1
        /\ cpc' \in {"sleep", "bd_insert", "bd_update"}
        /\ tick'.ta_data = <<>>)
        => /\ cpc' = "sleep"
           /\ in_break' = in_break
           /\ frozen_count' = frozen_count
           /\ current_break_id' = current_break_id
           /\ current_scheduled_break' = current_scheduled_break
           /\ actual_breaks' = actual_breaks]_vars

\* the steps of a tick: those of collect_once and the INSERT and UPDATE that
\* process awaits
DayTick ==
    \/ CollectorRun
    \/ InsertBreakStart
    \/ UpdateBreakEnd

\* DaySpec, where the event loop resumes the polling coroutine whenever the
\* call it awaits has completed or its sleep is over
FairDaySpec == DaySpec /\ WF_vars(DayTick)

\* C24: whatever reads, telemetry INSERTs and break-record INSERTs and UPDATEs
\* fail, the polling loop keeps running: no step clears `running` or enters
\* shutdown, a step in which a call fails leaves the collector at an await of
\* the tick (process included) or at the sleep of the loop, the next tick can begin whenever the
\* loop sleeps, and every tick comes back to the sleep, so that all ticks
\* are executed
C24_FaultsNeverEndLoop ==
    /\ [](running /\ shutdowns = 0 /\ ~pool_closed)
    /\ [][faults' > faults
            => /\ running'
               /\ cpc' \in ReadPcs \cup {"st_cycle", "st_ta", "st_quality",
                                       "bd_insert", "bd_update", "sleep"}]_vars
    /\ []((cpc = "sleep" /\ ticks < MaxTicks) => ENABLED CollectOnce)
    /\ [](cpc # "sleep" => ENABLED <<DayTick>>_vars)
    /\ [](cpc # "sleep" => <>(cpc = "sleep"))
    /\ <>[](ticks = MaxTicks /\ cpc = "sleep")

\* C24: in the first tick a cycle read failed and the INSERT of a break start
\* failed, in the second tick an INSERT of telemetry failed, and the loop is
\* at its sleep again
C24_Witness ==
    /\ cpc = "sleep"
    /\ running
    /\ ticks = 2
    /\ faults = 2
    /\ in_break
    /\ current_break_id = None
    /\ actual_breaks = <<>>
    /\ tick.store_failed # {}

-----------------------------------------------------------------------------
(* store_cycle_times as a function of the batch it is called with *)

\* the longest batch store_cycle_times is called with
MaxBatch == 3

\* units and raw cycle times (ms) of the readings a batch is made of: both
\* paired units and one other unit, a time below, at and above the threshold
CycleUnits == TWIN_SYNC_STATIONS \cup {12}
CycleTimes == {8500, SKIP_CYCLE_THRESHOLD, 15000}

\* read_cycle_times lines 415-419: the readings a batch can hold
CycleInputs ==
    {[sequence_id |-> u, cycle_time_sec |-> c, desired_cycle_sec |-> 17000] :
        u \in CycleUnits, c \in CycleTimes}

\* the batches store_cycle_times is called with
CycleBatches == UNION {[1..n -> CycleInputs] : n \in 0..MaxBatch}

\* collect_once line 602 outside a scheduled break: store_cycle_times is called
\* with the batch of the tick; it returns at once (lines 501, 517) or awaits
\* its INSERT
StoreCycleTimesCall ==
    /\ cpc = "sleep"
    /\ running
    /\ tick.stored.cycles = <<>>
    /\ "cycle" \notin tick.store_failed
    /\ ContinueTick(BeginStoreCycles(tick))
    /\ UNCHANGED <<ticks, quality_counters>>
    /\ TickFrame
    /\ UNCHANGED mvars

\* the collector between two ticks, holding a batch of cycle readings that
\* store_cycle_times has not been called with yet
StoreInit ==
    /\ ManagerStarted
    /\ clock = FirstInstant
    /\ scheduled_breaks = <<>>
    /\ prev_ta = [u \in Units |-> NoKey]
    /\ frozen_count = 0
    /\ in_break = FALSE
    /\ current_scheduled_break = NoBreak
    /\ current_break_id = None
    /\ actual_breaks = <<>>
    /\ running = TRUE
    /\ cpc = "sleep"
    /\ proc_now = NoTime
    /\ shutdowns = 0
    /\ pool_closed = FALSE
    /\ batches = <<>>
    /\ is_frozen = FALSE
    /\ \E batch \in CycleBatches : tick = [NoTick EXCEPT !.cycles = batch]
    /\ ticks = 0
    /\ weekday = Today
    /\ quality_counters = {}

StoreNext ==
    \/ StoreCycleTimesCall
    \/ StoreCycleTimes

StoreSpec == StoreInit /\ [][StoreNext]_vars

\* how often reading r occurs in a sequence of readings
CountIn(readings, r) ==
    Cardinality({i \in 1..Len(readings) : readings[i] = r})

\* C21: once store_cycle_times has written the batch, the rows hold every
\* reading of the batch as often as the batch does, except the readings of a
\* unit in {47, 48} with a cycle time below 10 s, which they do not hold; the
\* rows keep the order of the batch; the INSERT is awaited exactly when a
\* reading is left to write, and a batch that is dropped whole writes nothing
C21_SkipCyclesDropped ==
    /\ [][(cpc = "st_cycle" /\ faults' = faults)
            => /\ \A r \in CycleInputs :
                    CountIn(tick'.stored.cycles, r) =
                        IF r.sequence_id \in {47, 48} /\ r.cycle_time_sec < 10000
                        THEN 0
                        ELSE CountIn(tick.cycles, r)
               /\ \E f \in [1..Len(tick'.stored.cycles) -> 1..Len(tick.cycles)] :
                    /\ \A i \in DOMAIN f : tick'.stored.cycles[i] = tick.cycles[f[i]]
                    /\ \A i, j \in DOMAIN f : i < j => f[i] < f[j]]_vars
    /\ [][cpc = "sleep"
            => /\ cpc' = "st_cycle"
               /\ \E i \in DOMAIN tick.cycles :
                     ~(/\ tick.cycles[i].sequence_id \in {47, 48}
                       /\ tick.cycles[i].cycle_time_sec < 10000)]_vars
    /\ []((/\ cpc = "sleep"
           /\ tick.stored.cycles = <<>>
           /\ "cycle" \notin tick.store_failed
           /\ \E i \in DOMAIN tick.cycles :
                 ~(/\ tick.cycles[i].sequence_id \in {47, 48}
                   /\ tick.cycles[i].cycle_time_sec < 10000))
            => ENABLED <<StoreCycleTimesCall>>_vars)

\* C21: a batch with unit 47 at 8.5 s, unit 47 at 15 s and unit 12 at 8.5 s
\* was written: the first reading is dropped, the other two are rows
C21_Witness ==
    /\ cpc = "sleep"
    /\ Len(tick.cycles) = 3
    /\ tick.cycles[1].sequence_id = 47 /\ tick.cycles[1].cycle_time_sec = 8500
    /\ tick.cycles[2].sequence_id = 47 /\ tick.cycles[2].cycle_time_sec = 15000
    /\ tick.cycles[3].sequence_id = 12 /\ tick.cycles[3].cycle_time_sec = 8500
    /\ tick.stored.cycles = <<tick.cycles[2], tick.cycles[3]>>

-----------------------------------------------------------------------------
(* process, with the result of its check_frozen call kept from tick to tick *)

\* a call of process with any batch (as Process); what check_frozen returned
\* (line 176) is kept in is_frozen until the next call
ProcessObserved ==
    /\ cpc = "sleep"
    /\ running
    /\ \E batch \in TaBatches :
          /\ ProcessBody(batch)
          /\ is_frozen' = check_frozen(batch)
    /\ UNCHANGED <<clock, scheduled_breaks, actual_breaks, running, shutdowns,
                   pool_closed>>
    /\ UNCHANGED mvars
    /\ UNCHANGED <<batches, tvars, dvars>>

EdgeNext ==
    \/ Advance
    \/ ProcessObserved
    \/ InsertBreakStart
    \/ UpdateBreakEnd

\* the break detector called tick after tick by the polling loop, which is
\* not interrupted
EdgeSpec == BreakInit /\ [][EdgeNext]_vars

\* C31: when the previous tick was frozen outside a break (it evaluated the
\* schedule and found no entry), a tick that is frozen too opens no break:
\* it awaits no INSERT, leaves in_break false and adds no row
C31_MatchOnlyOnFreezeEdge ==
    [][(cpc = "sleep" /\ is_frozen /\ ~in_break /\ is_frozen')
        => /\ cpc' # "bd_insert"
           /\ ~in_break'
           /\ actual_breaks' = actual_breaks]_vars

-----------------------------------------------------------------------------
(* the polling loop over several days *)

\* run line 681: the day changes while the loop sleeps; nothing in run or in
\* collect_once calls load_scheduled_breaks again (its only call is line 667)
DayRollover ==
    /\ cpc = "sleep"
    /\ running
    /\ ticks > 0
    /\ weekday' = (weekday % 7) + 1
    /\ clock' \in DayInstants(weekday')
    /\ UNCHANGED <<scheduled_breaks, prev_ta, frozen_count, in_break,
                   current_scheduled_break, current_break_id, actual_breaks,
                   running, cpc, proc_now, shutdowns, pool_closed>>
    /\ UNCHANGED mvars
    /\ UNCHANGED <<fvars, tvars, quality_counters>>

\* run() lines 667-676 on a Wednesday or a Thursday: the schedule of the day
\* and of the day after it has been loaded from break_definitions and the
\* polling loop begins (tracker as in DayInit)
WeekInit ==
    /\ ManagerStarted
    /\ weekday \in {Today, Today + 1}
    /\ clock \in DayInstants(weekday)
    /\ scheduled_breaks = load_scheduled_breaks(weekday)
    /\ \/ /\ prev_ta = [u \in Units |-> NoKey]
          /\ frozen_count = 0
       \/ /\ prev_ta = [u \in Units |-> IF u = active_sequences[1]
                                         THEN StandstillKey(u) ELSE NoKey]
          /\ frozen_count = FREEZE_THRESHOLD - 1
    /\ in_break = FALSE
    /\ current_scheduled_break = NoBreak
    /\ current_break_id = None
    /\ actual_breaks = <<>>
    /\ running = TRUE
    /\ cpc = "sleep"
    /\ proc_now = NoTime
    /\ shutdowns = 0
    /\ pool_closed = FALSE
    /\ batches = <<>>
    /\ is_frozen = FALSE
    /\ tick = NoTick
    /\ ticks = 0
    /\ quality_counters = {}

WeekNext ==
    \/ CollectorRun
    \/ PollingSleep
    \/ DayRollover
    \/ InsertBreakStart
    \/ UpdateBreakEnd

\* the polling loop with a steady connection, running from day to day
WeekSpec == WeekInit /\ [][WeekNext]_vars

\* C32: while a tick is under way the schedule in memory is what
\* load_scheduled_breaks gives for the weekday of the tick (the entries of
\* that day and of the day after it), and the schedule changes only in a step
\* in which the day changes
C32_ScheduleReloadedDaily ==
    /\ []((running /\ cpc # "sleep")
            => scheduled_breaks = load_scheduled_breaks(weekday))
    /\ [][weekday' = weekday => scheduled_breaks' = scheduled_breaks]_vars

\* C38: a tick that found itself inside a scheduled break did so by an entry
\* of the tick's own weekday whose exact window holds the time of the tick,
\* and the entry a break is matched against when its record is inserted is an
\* entry of the weekday of that tick
C38_EntryOfCurrentDay ==
    /\ (running /\ cpc # "sleep" /\ tick.in_scheduled_break)
          => \E i \in 1..Len(scheduled_breaks) :
                /\ scheduled_breaks[i].day_of_week = weekday
                /\ scheduled_breaks[i].start_time <= clock
                /\ clock <= scheduled_breaks[i].end_time
    /\ (running /\ cpc = "bd_insert")
          => current_scheduled_break.day_of_week = weekday

-----------------------------------------------------------------------------
(* the functions of a tick that read the clock, applied at one instant *)

\* rows of break_definitions of Shift 3 near midnight
NightBreak ==
    [id |-> 5, day_of_week |-> Today, shift_number |-> 3,
     start_time |-> HMS(0, 2, 0), end_time |-> HMS(0, 12, 0)]
LateBreak ==
    [id |-> 6, day_of_week |-> Today, shift_number |-> 3,
     start_time |-> HMS(23, 40, 0), end_time |-> HMS(23, 58, 0)]

\* schedules as load_scheduled_breaks leaves them (ORDER BY start_time)
ClockSchedules ==
    {<<MorningBreak>>, <<FridayBreak>>, <<NightBreak>>, <<LateBreak>>,
     <<NightBreak, MorningBreak, FridayBreak, LateBreak>>}

\* times of day, datetime.now().time(): around the shift boundaries of both
\* kinds of day, in the breaks, and on both sides of midnight
ClockTimes ==
    {HMS(0, 1, 0), HMS(0, 30, 0), HMS(5, 59, 0), HMS(6, 0, 0), HMS(9, 58, 0),
     HMS(13, 29, 0), HMS(13, 30, 0), HMS(13, 45, 0), HMS(14, 0, 0),
     HMS(14, 45, 0), HMS(21, 0, 0), HMS(21, 30, 0), HMS(22, 0, 0),
     HMS(23, 58, 0)}

\* collect_once line 593: is_in_scheduled_break_time is called
InScheduledBreakCall ==
    /\ cpc = "sleep"
    /\ running
    /\ tick' = [NoTick EXCEPT !.in_scheduled_break = is_in_scheduled_break_time]
    /\ cpc' = "cl_shift"
    /\ UNCHANGED <<clock, scheduled_breaks, prev_ta, frozen_count, in_break,
                   current_scheduled_break, current_break_id, actual_breaks,
                   running, proc_now, shutdowns, pool_closed>>
    /\ UNCHANGED mvars
    /\ UNCHANGED <<fvars, ticks, dvars>>

\* read_quality_counters lines 466 and 485-486: _get_current_shift_and_hour
\* is called and its result becomes the shift and hour of the counters
ShiftAndHourCall ==
    /\ cpc = "cl_shift"
    /\ running
    /\ tick' = [tick EXCEPT !.counters.shift = ShiftAndHour(weekday, clock)[1],
                            !.counters.hour = ShiftAndHour(weekday, clock)[2]]
    /\ cpc' = "cl_find"
    /\ UNCHANGED <<clock, scheduled_breaks, prev_ta, frozen_count, in_break,
                   current_scheduled_break, current_break_id, actual_breaks,
                   running, proc_now, shutdowns, pool_closed>>
    /\ UNCHANGED mvars
    /\ UNCHANGED <<fvars, ticks, dvars>>

\* process lines 181-185: _find_scheduled_break is called and what it returns
\* is kept as current_scheduled_break
FindScheduledBreakCall ==
    /\ cpc = "cl_find"
    /\ running
    /\ current_scheduled_break' = FindScheduledBreak(clock)
    /\ cpc' = "cl_done"
    /\ UNCHANGED <<clock, scheduled_breaks, prev_ta, frozen_count, in_break,
                   current_break_id, actual_breaks, running, proc_now,
                   shutdowns, pool_closed>>
    /\ UNCHANGED mvars
    /\ UNCHANGED <<fvars, tvars, dvars>>

\* any weekday, any of the times of day, any of the schedules
ClockInit ==
    /\ ManagerStarted
    /\ weekday \in 1..7
    /\ clock \in ClockTimes
    /\ scheduled_breaks \in ClockSchedules
    /\ prev_ta = [u \in Units |-> NoKey]
    /\ frozen_count = 0
    /\ in_break = FALSE
    /\ current_scheduled_break = NoBreak
    /\ current_break_id = None
    /\ actual_breaks = <<>>
    /\ running = TRUE
    /\ cpc = "sleep"
    /\ proc_now = NoTime
    /\ shutdowns = 0
    /\ pool_closed = FALSE
    /\ batches = <<>>
    /\ is_frozen = FALSE
    /\ tick = NoTick
    /\ ticks = 0
    /\ quality_counters = {}

ClockNext ==
    \/ InScheduledBreakCall
    \/ ShiftAndHourCall
    \/ FindScheduledBreakCall

ClockSpec == ClockInit /\ [][ClockNext]_vars

\* C33: at every weekday and time, the shift by which the break detector
\* selects schedule entries is the shift _get_current_shift_and_hour has
\* returned for that instant: the entry found for a break, and an entry by
\* which the tick counts as inside a scheduled break, is of that shift
C33_DetectorShiftIsCollectorShift ==
    /\ cpc \in {"cl_find", "cl_done"} => ShiftOf(clock) = tick.counters.shift
    /\ (cpc = "cl_done" /\ current_scheduled_break # NoBreak)
          => current_scheduled_break.shift_number = tick.counters.shift
    /\ (cpc \in {"cl_find", "cl_done"} /\ tick.in_scheduled_break)
          => \E i \in 1..Len(scheduled_breaks) :
                /\ scheduled_breaks[i].shift_number = tick.counters.shift
                /\ scheduled_breaks[i].start_time <= clock
                /\ clock <= scheduled_breaks[i].end_time

\* the start of the shift that is under way on weekday wd at time of day t,
\* in seconds from the midnight before t (negative: on the day before)
ShiftStart(wd, t) ==
    LET yesterday == ((wd + 5) % 7) + 1
        second(d) == IF d = 5 THEN HMS(13, 30, 0) ELSE HMS(14, 0, 0)
        third(d) == IF d = 5 THEN HMS(21, 0, 0) ELSE HMS(22, 0, 0)
    IN  IF t < HMS(6, 0, 0) THEN third(yesterday) - DaySeconds
        ELSE IF t < second(wd) THEN HMS(6, 0, 0)
        ELSE IF t < third(wd) THEN second(wd)
        ELSE third(wd)

\* C35: at every weekday and time of day the shift returned is 1, 2 or 3 and
\* the hour index is in 0..7 and is the number of whole hours since the start
\* of the shift under way, at most 7
C35_HourIndexInRange ==
    cpc \in {"cl_find", "cl_done"}
        => /\ tick.counters.shift \in 1..3
           /\ tick.counters.hour \in 0..7
           /\ tick.counters.hour =
                 Min((clock - ShiftStart(weekday, clock)) \div 3600, 7)

\* on the time line, time of day t of some day lies between 5 minutes before
\* the start of entry brk and 5 minutes after its end (an end_time before the
\* start_time is on the next day)
InBufferedWindowOnTimeLine(brk, t) ==
    LET end == IF brk.end_time < brk.start_time
               THEN brk.end_time + DaySeconds ELSE brk.end_time
    IN  \E d \in {-1, 0, 1} :
            /\ brk.start_time - HMS(0, 5, 0) <= t + d * DaySeconds
            /\ t + d * DaySeconds <= end + HMS(0, 5, 0)

\* C34: after _find_scheduled_break was called, an entry was returned
\* whenever an entry of the shift it determined has the time of the call in
\* its buffered window on the time line, and an entry returned is an entry of
\* the schedule of that shift whose buffered window holds the time of the call
C34_FindsEveryBufferedWindow ==
    cpc = "cl_done"
        => /\ (\E i \in 1..Len(scheduled_breaks) :
                  /\ scheduled_breaks[i].shift_number = ShiftOf(clock)
                  /\ InBufferedWindowOnTimeLine(scheduled_breaks[i], clock))
                => current_scheduled_break # NoBreak
           /\ current_scheduled_break # NoBreak
                => /\ \E i \in 1..Len(scheduled_breaks) :
                         scheduled_breaks[i] = current_scheduled_break
                   /\ current_scheduled_break.shift_number = ShiftOf(clock)
                   /\ InBufferedWindowOnTimeLine(current_scheduled_break, clock)

====
